---- MODULE Spec2Model ----
(***************************************************************************)
(* The metadata cache and the relation expander of OdooModelExplorer       *)
(* (src/demo/odoo-model-explorer.py).                                      *)
(*                                                                         *)
(* The explorer keeps two cache layers: attributes of the object (memory)  *)
(* and JSON files under ~/.odoo_explorer (disk).  Every public method is   *)
(* modelled as an operator from (cache state, arguments, outcome of the    *)
(* remote requests it issues) to (new cache state, returned value, the     *)
(* requests issued, the cache files read), and as an action applying it.   *)
(* The remote server is the environment: what each request answers is      *)
(* chosen per call.  Values obtained from response.json() are JSON values, *)
(* for which json.dump followed by json.load gives the value back, so a    *)
(* file is modelled by the value written to it.                            *)
(***************************************************************************)
EXTENDS Integers, Sequences, FiniteSets, TLC

\* Bounds of the model.
MaxVer == 2        \* revisions of the server's data a fetch may observe
MaxIds == 6        \* longest id list of a one2many value on the server
MaxDepth == 2      \* largest max_depth / depth_remaining argument tried

\* Program constant: rel_ids = field_value[:5] and "limit": 5.
ExpandLimit == 5

None == <<>>
Some(v) == <<v>>

\* Model names, as the sequence of their parts ("." is a part of its own).
ResPartner == <<"res", ".", "partner">>
ResPartnerU == <<"res", "_", "partner">>
ResCountry == <<"res", ".", "country">>
ResUsers == <<"res", ".", "users">>

\* A name the caller may pass that the server has no model for.
NoSuch == <<"no", ".", "such">>

Models == {ResPartner, ResPartnerU, ResCountry, ResUsers, NoSuch}

\* model_name.replace('.', '_')
FsKey(model_name) ==
    [i \in DOMAIN model_name |-> IF model_name[i] = "." THEN "_" ELSE model_name[i]]

FsKeys == {FsKey(m) : m \in Models}

EmptyDict == [k \in {} |-> 0]
EmptyList == <<>>

----------------------------------------------------------------------------
\* The server's data (the environment).

\* GET /model_names
ServerModelNames == <<ResPartner, ResPartnerU, ResCountry, ResUsers>>

\* GET /models
ServerModelsInfo ==
    [i \in DOMAIN ServerModelNames |->
        [model |-> ServerModelNames[i], transient |-> FALSE]]

FieldInfo(type, relation, required) ==
    [type |-> type, relation |-> relation, required |-> required]

\* A field with a label of its own ("string"), and a computed field with its
\* "store" flag.
Labelled(field_info, string) == ("string" :> string) @@ field_info
Computed(field_info, store) == ("compute" :> TRUE) @@ ("store" :> store) @@ field_info

\* GET /fields/<model> at revision v.
ServerFields(model_name, v) ==
    IF model_name = ResPartner THEN
        ("name" :> FieldInfo("char", None, TRUE))
        @@ ("country_id" :> FieldInfo("many2one", ResCountry, FALSE))
        @@ ("child_ids" :> FieldInfo("one2many", ResPartner, FALSE))
        @@ (IF v >= 2 THEN ("email" :> FieldInfo("char", None, FALSE)) ELSE EmptyDict)
    ELSE IF model_name = ResPartnerU THEN
        ("name" :> FieldInfo("char", None, TRUE))
        @@ ("ref" :> FieldInfo("char", None, FALSE))
        @@ (IF v >= 2 THEN ("email" :> FieldInfo("char", None, FALSE)) ELSE EmptyDict)
    ELSE IF model_name = ResUsers THEN
        ("name" :> FieldInfo("char", None, TRUE))
        @@ ("_x" :> FieldInfo("char", None, TRUE))
        @@ ("tz" :> Labelled(FieldInfo("selection", None, FALSE), "Timezone"))
        @@ ("display" :> Computed(FieldInfo("char", None, FALSE), FALSE))
        @@ ("partner_id" :> FieldInfo("many2one", ResPartner, TRUE))
        @@ (IF v >= 2
            THEN ("lang" :> Labelled(Computed(FieldInfo("char", None, FALSE), TRUE),
                                     "TIMEZONE"))
            ELSE EmptyDict)
    ELSE
        ("name" :> FieldInfo("char", None, TRUE))
        @@ (IF v >= 2 THEN ("code" :> FieldInfo("char", None, TRUE)) ELSE EmptyDict)

\* One remote request as it is seen on the wire. status: "ok"; "fail" (connection
\* error, timeout, or an answer that raises in the client); for a search_read also
\* "empty" (2xx, no record) and "errbody" (non-2xx status with a JSON object body).
\* flds is None when the request names no fields; field is the relation field a
\* related read is issued for.
Req(kind, model, ids, flds, limit, status, field) ==
    [kind |-> kind, model |-> model, ids |-> ids, flds |-> flds,
     limit |-> limit, status |-> status, field |-> field]

\* JSON values of a record, tagged by their Python type.
IntV(n) == [int |-> n]
StrV(s) == [str |-> s]
FalseV == [bool |-> FALSE]
M2oV(id, display_name) == [m2o |-> <<id, display_name>>]
IdsV(ids) == [ids |-> ids]
RecV(r) == [rec |-> r]
RecsV(rs) == [recs |-> rs]
ErrorBody == [error |-> "internal server error"]

\* Python truth value of a JSON value.
Truthy(v) ==
    IF "bool" \in DOMAIN v THEN v.bool
    ELSE IF "int" \in DOMAIN v THEN v.int # 0
    ELSE IF "str" \in DOMAIN v THEN v.str # ""
    ELSE IF "ids" \in DOMAIN v THEN v.ids # <<>>
    ELSE IF "recs" \in DOMAIN v THEN v.recs # <<>>
    ELSE TRUE

\* The ids of a one2many value of n ids, in the order the server lists them.
IdList(n) == [i \in 1..n |-> n + 1 - i]

Min(a, b) == IF a < b THEN a ELSE b
Take(s, n) == SubSeq(s, 1, Min(Len(s), n))

\* POST /search_read/<model> with an empty domain, limit 1: the newest record.
\* o.ids and o.country are the server's current values of the two relation fields.
ServerRecord(model_name, o) ==
    IF model_name = ResPartner THEN
        ("id" :> IntV(7)) @@ ("name" :> StrV("Azure"))
        @@ ("country_id" :> o.country) @@ ("child_ids" :> IdsV(o.ids))
    ELSE ("id" :> IntV(1)) @@ ("name" :> StrV("Belgium"))

\* A record of a related read: which record, restricted to which fields.
RelatedRecord(relation, id, flds) ==
    [model |-> relation, id |-> id, fields |-> flds]

\* POST /search_read/<relation> filtered to ids, answered in full: one record
\* per requested id, in the order of the request, at most limit of them.
ServerSearchRead(relation, ids, flds, limit) ==
    [i \in 1..Min(Len(ids), limit) |-> RelatedRecord(relation, ids[i], flds)]

----------------------------------------------------------------------------
\* The explorer's state.

VARIABLES
    models_cache,        \* self.models_cache: None or the list
    models_info_cache,   \* self.models_info_cache
    fields_cache,        \* self.fields_cache: model name -> None or the schema
    record_cache,        \* self.record_cache
    models_file,         \* ~/.odoo_explorer/models.json: None (no file) or content
    models_info_file,    \* ~/.odoo_explorer/models_info.json
    fields_files,        \* fields/<key>.json, by file-system key
    sample_files,        \* sample_records/<key>_sample.json, by file-system key
    server_ids,          \* the server's child_ids of the newest res.partner
    server_country,      \* the server's country_id of the newest res.partner
    workload,            \* which methods the caller of this run uses
    last,                \* the last call: arguments, result, requests, reads
    selected_models,     \* self.selected_models: a set of model names
    selected_fields,     \* self.selected_fields: model name -> None (no entry) or a set
    picker,              \* the field picker on screen: None or its local variables
    out_file,            \* the file an exporter is told to write: None or its content
    access_token         \* OdooAPIClient.access_token: None, "basic_auth" or a token

vars == <<models_cache, models_info_cache, fields_cache, record_cache,
          models_file, models_info_file, fields_files, sample_files,
          server_ids, server_country, workload, last,
          selected_models, selected_fields, picker, out_file, access_token>>

St ==
    [models_cache |-> models_cache, models_info_cache |-> models_info_cache,
     fields_cache |-> fields_cache, record_cache |-> record_cache,
     models_file |-> models_file, models_info_file |-> models_info_file,
     fields_files |-> fields_files, sample_files |-> sample_files,
     selected_models |-> selected_models, selected_fields |-> selected_fields,
     picker |-> picker, out_file |-> out_file]

\* What a method hands back: the state it leaves, the value it returns, the remote
\* requests it issued in order, the cache files it read, whether it raised.
Result(st, ret, reqs, reads) ==
    [st |-> st, ret |-> ret, reqs |-> reqs, reads |-> reads, raised |-> FALSE]

----------------------------------------------------------------------------
\* OdooModelExplorer.__init__: empty memory; the cache directory is kept.
InitMemory(st) ==
    [st EXCEPT !.models_cache = None,
               !.models_info_cache = None,
               !.fields_cache = [m \in Models |-> None],
               !.record_cache = [m \in Models |-> None]]

\* OdooModelExplorer.__init__: nothing selected, no picker on screen.
InitSelection(st) ==
    [st EXCEPT !.selected_models = {},
               !.selected_fields = [m \in Models |-> None],
               !.picker = None]

\* get_models that fetches the list and keeps it in memory without writing the file.
GetModelsUnsaved(st, use_cache, refresh_cache, o) ==
    IF use_cache /\ ~refresh_cache /\ st.models_file # None
    THEN Result([st EXCEPT !.models_cache = st.models_file],
                st.models_file[1], <<>>, {<<"names", None>>})
    ELSE IF o.names = "ok"
    THEN Result([st EXCEPT !.models_cache = Some(ServerModelNames)],
                ServerModelNames,
                <<Req("names", None, <<>>, None, 0, "ok", "")>>, {})
    ELSE Result(st, EmptyList, <<Req("names", None, <<>>, None, 0, "fail", "")>>, {})

\* get_models(use_cache, refresh_cache).  o.names: "ok", or "fail" when the request
\* raises a RequestException.
GetModels(st, use_cache, refresh_cache, o) ==
    IF use_cache /\ ~refresh_cache /\ st.models_file # None
    THEN Result([st EXCEPT !.models_cache = st.models_file],
                st.models_file[1], <<>>, {<<"names", None>>})
    ELSE IF o.names = "ok"
    THEN Result([st EXCEPT !.models_cache = Some(ServerModelNames),
                           !.models_file = Some(ServerModelNames)],
                ServerModelNames,
                <<Req("names", None, <<>>, None, 0, "ok", "")>>, {})
    ELSE Result(st, EmptyList, <<Req("names", None, <<>>, None, 0, "fail", "")>>, {})

\* get_models_info(use_cache, refresh_cache)
GetModelsInfo(st, use_cache, refresh_cache, o) ==
    IF use_cache /\ ~refresh_cache /\ st.models_info_file # None
    THEN Result([st EXCEPT !.models_info_cache = st.models_info_file],
                st.models_info_file[1], <<>>, {<<"info", None>>})
    ELSE IF o.info = "ok"
    THEN Result([st EXCEPT !.models_info_cache = Some(ServerModelsInfo),
                           !.models_info_file = Some(ServerModelsInfo)],
                ServerModelsInfo,
                <<Req("info", None, <<>>, None, 0, "ok", "")>>, {})
    ELSE Result(st, EmptyList, <<Req("info", None, <<>>, None, 0, "fail", "")>>, {})

\* get_fields that records the empty schema in memory when the fetch fails.
GetFieldsCachingFailure(st, model_name, use_cache, refresh_cache, o) ==
    IF st.fields_cache[model_name] # None
    THEN Result(st, st.fields_cache[model_name][1], <<>>, {})
    ELSE LET cache_file == FsKey(model_name) IN
         IF use_cache /\ ~refresh_cache /\ st.fields_files[cache_file] # None
         THEN Result([st EXCEPT !.fields_cache[model_name] = st.fields_files[cache_file]],
                     st.fields_files[cache_file][1], <<>>, {<<"fields", cache_file>>})
         ELSE IF o.fields[model_name] > 0
         THEN LET fetched == ServerFields(model_name, o.fields[model_name]) IN
              Result([st EXCEPT !.fields_cache[model_name] = Some(fetched),
                                !.fields_files[cache_file] = Some(fetched)],
                     fetched,
                     <<Req("fields", model_name, <<>>, None, 0, "ok", "")>>, {})
         ELSE Result([st EXCEPT !.fields_cache[model_name] = Some(EmptyDict)], EmptyDict,
                     <<Req("fields", model_name, <<>>, None, 0, "fail", "")>>, {})

\* get_fields whose memory check is skipped when refresh_cache is set.
GetFieldsRefreshingMemory(st, model_name, use_cache, refresh_cache, o) ==
    IF st.fields_cache[model_name] # None /\ ~refresh_cache
    THEN Result(st, st.fields_cache[model_name][1], <<>>, {})
    ELSE LET cache_file == FsKey(model_name) IN
         IF use_cache /\ ~refresh_cache /\ st.fields_files[cache_file] # None
         THEN Result([st EXCEPT !.fields_cache[model_name] = st.fields_files[cache_file]],
                     st.fields_files[cache_file][1], <<>>, {<<"fields", cache_file>>})
         ELSE IF o.fields[model_name] > 0
         THEN LET fetched == ServerFields(model_name, o.fields[model_name]) IN
              Result([st EXCEPT !.fields_cache[model_name] = Some(fetched),
                                !.fields_files[cache_file] = Some(fetched)],
                     fetched,
                     <<Req("fields", model_name, <<>>, None, 0, "ok", "")>>, {})
         ELSE Result(st, EmptyDict,
                     <<Req("fields", model_name, <<>>, None, 0, "fail", "")>>, {})

\* get_fields(model_name, use_cache, refresh_cache).  o.fields[m]: the revision of
\* the schema the server answers with, 0 when the request raises a RequestException.
GetFields(st, model_name, use_cache, refresh_cache, o) ==
    IF st.fields_cache[model_name] # None
    THEN Result(st, st.fields_cache[model_name][1], <<>>, {})
    ELSE LET cache_file == FsKey(model_name) IN
         IF use_cache /\ ~refresh_cache /\ st.fields_files[cache_file] # None
         THEN Result([st EXCEPT !.fields_cache[model_name] = st.fields_files[cache_file]],
                     st.fields_files[cache_file][1], <<>>, {<<"fields", cache_file>>})
         ELSE IF o.fields[model_name] > 0
         THEN LET fetched == ServerFields(model_name, o.fields[model_name]) IN
              Result([st EXCEPT !.fields_cache[model_name] = Some(fetched),
                                !.fields_files[cache_file] = Some(fetched)],
                     fetched,
                     <<Req("fields", model_name, <<>>, None, 0, "ok", "")>>, {})
         ELSE Result(st, EmptyDict,
                     <<Req("fields", model_name, <<>>, None, 0, "fail", "")>>, {})

\* d.get(k, default) and d[k] = v on a dict.
DictGet(d, k, default) == IF k \in DOMAIN d THEN d[k] ELSE default
DictSet(d, k, v) == (k :> v) @@ d

\* fields.get(field_name, {}): every .get() on the empty dict gives None.
NoFieldInfo == FieldInfo("", None, FALSE)

\* The order in which a schema dict yields its field names.
FieldOrder ==
    <<"name", "country_id", "child_ids", "email", "ref", "code",
      "_x", "tz", "display", "partner_id", "lang">>

\* Those of them that are relation fields of some model.
RelationFieldOrder == <<"country_id", "child_ids">>

InSchemaOrder(names) == SelectSeq(FieldOrder, LAMBDA f : f \in names)

\* essential_fields without the required fields of the related model.
EssentialFieldsNamesOnly(rel_fields) == {"name", "display_name"}

\* essential_fields = ['name', 'display_name'] + the required fields of rel_fields
EssentialFields(rel_fields) ==
    {"name", "display_name"} \cup {f \in DOMAIN rel_fields : rel_fields[f].required}

\* rel_ids = field_value, the whole list.
RelIdsUncut(field_value) == field_value

\* rel_ids = field_value[:5]
RelIds(field_value) == Take(field_value, ExpandLimit)

\* One pass of the loop of _expand_relation_fields, for field_name.  acc is the
\* state so far: cache state, the record being filled, requests, reads.
\* o.rel[field_name] is what the related read of this field answers.
ExpandField(acc, fields, field_name, o) ==
    LET field_info == DictGet(fields, field_name, NoFieldInfo)
        field_type == field_info.type
        relation == field_info.relation
        field_value == DictGet(acc.record, field_name, FalseV)
        answer == o.rel[field_name]
        expanded == field_name \o "_expanded"
    IN  IF relation = None THEN acc
        ELSE IF ~Truthy(field_value) THEN acc
        ELSE IF field_type = "many2one" THEN
            IF "m2o" \notin DOMAIN field_value THEN acc
            ELSE LET rel_id == field_value.m2o[1]
                     Read(rf) ==
                        LET essential_fields == EssentialFields(rf.ret)
                            rel_records == ServerSearchRead(relation, <<rel_id>>,
                                                            Some(essential_fields), 1)
                        IN  [st |-> rf.st,
                             reqs |-> acc.reqs \o rf.reqs
                                      \o <<Req("related", relation, <<rel_id>>,
                                               Some(essential_fields), 1, answer,
                                               field_name)>>,
                             reads |-> acc.reads \cup rf.reads,
                             record |-> IF answer = "ok" /\ rel_records # <<>>
                                        THEN DictSet(acc.record, expanded,
                                                     RecV(rel_records[1]))
                                        ELSE acc.record]
                 IN  Read(GetFields(acc.st, relation, TRUE, FALSE, o))
        ELSE IF field_type \in {"one2many", "many2many"} THEN
            IF "ids" \notin DOMAIN field_value THEN acc
            ELSE LET rel_ids == RelIds(field_value.ids)
                     rel_records == ServerSearchRead(relation, rel_ids, None, ExpandLimit)
                 IN  IF rel_ids = <<>> THEN acc
                     ELSE [st |-> acc.st,
                           reqs |-> acc.reqs
                                    \o <<Req("related", relation, rel_ids, None,
                                             ExpandLimit, answer, field_name)>>,
                           reads |-> acc.reads,
                           record |-> IF answer = "ok" /\ rel_records # <<>>
                                      THEN DictSet(acc.record, expanded, RecsV(rel_records))
                                      ELSE IF answer = "errbody"
                                      THEN DictSet(acc.record, expanded, ErrorBody)
                                      ELSE acc.record]
        ELSE acc

RECURSIVE ExpandLoop(_, _, _, _, _)
ExpandLoop(acc, fields, relation_fields, i, o) ==
    IF i > Len(relation_fields) THEN acc
    ELSE ExpandLoop(ExpandField(acc, fields, relation_fields[i], o),
                    fields, relation_fields, i + 1, o)

\* _expand_relation_fields with its guard letting depth_remaining = 0 through.
ExpandRelationFieldsAtZero(st, record, model_name, relation_fields, depth_remaining, o) ==
    IF depth_remaining < 0 \/ relation_fields = <<>>
    THEN Result(st, record, <<>>, {})
    ELSE LET Looped(acc) == Result(acc.st, acc.record, acc.reqs, acc.reads)
             Listed(rf) == Looped(ExpandLoop([st |-> rf.st, record |-> record,
                                              reqs |-> rf.reqs, reads |-> rf.reads],
                                             rf.ret, relation_fields, 1, o))
         IN  Listed(GetFields(st, model_name, TRUE, FALSE, o))

\* _expand_relation_fields that, with depth to spare, goes on to read the children
\* of every child it expanded.
ExpandRelationFieldsNested(st, record, model_name, relation_fields, depth_remaining, o) ==
    IF depth_remaining <= 0 \/ relation_fields = <<>>
    THEN Result(st, record, <<>>, {})
    ELSE LET Looped(acc) ==
                LET children == IF /\ depth_remaining > 1
                                   /\ "child_ids_expanded" \in DOMAIN acc.record
                                   /\ "recs" \in DOMAIN acc.record["child_ids_expanded"]
                                THEN acc.record["child_ids_expanded"].recs
                                ELSE <<>>
                    nested == [i \in DOMAIN children |->
                                  Req("related", model_name, <<children[i].id>>, None,
                                      ExpandLimit, o.rel["child_ids"], "child_ids")]
                IN  Result(acc.st, acc.record, acc.reqs \o nested, acc.reads)
             Listed(rf) == Looped(ExpandLoop([st |-> rf.st, record |-> record,
                                              reqs |-> rf.reqs, reads |-> rf.reads],
                                             rf.ret, relation_fields, 1, o))
         IN  Listed(GetFields(st, model_name, TRUE, FALSE, o))

\* _expand_relation_fields(record, model_name, relation_fields, depth_remaining)
ExpandRelationFields(st, record, model_name, relation_fields, depth_remaining, o) ==
    IF depth_remaining <= 0 \/ relation_fields = <<>>
    THEN Result(st, record, <<>>, {})
    ELSE LET Looped(acc) == Result(acc.st, acc.record, acc.reqs, acc.reads)
             Listed(rf) == Looped(ExpandLoop([st |-> rf.st, record |-> record,
                                              reqs |-> rf.reqs, reads |-> rf.reads],
                                             rf.ret, relation_fields, 1, o))
         IN  Listed(GetFields(st, model_name, TRUE, FALSE, o))

\* get_sample_record(model_name, expand_relations, max_depth, use_cache, refresh_cache)
\* o.sample: what the sample search_read answers.
GetSampleRecord(st, model_name, expand_relations, max_depth, use_cache, refresh_cache, o) ==
    LET cache_file == FsKey(model_name) IN
    IF use_cache /\ ~refresh_cache /\ st.sample_files[cache_file] # None
    THEN Result(st, st.sample_files[cache_file][1], <<>>, {<<"sample", cache_file>>})
    ELSE
    LET request == Req("sample", model_name, <<>>, None, 1, o.sample, "")
        Saved(rf, ex) ==
            Result([ex.st EXCEPT !.sample_files[cache_file] = Some(ex.ret)],
                   ex.ret, rf.reqs \o <<request>> \o ex.reqs,
                   rf.reads \cup ex.reads)
        Sampled(rf) ==
            LET fields == rf.ret
                relation_fields ==
                    IF expand_relations
                    THEN InSchemaOrder({f \in DOMAIN fields :
                             fields[f].type \in {"many2one", "one2many", "many2many"}})
                    ELSE <<>>
                sample_record == ServerRecord(model_name, o)
            IN  IF fields = EmptyDict
                THEN Result(rf.st, EmptyDict, rf.reqs, rf.reads)
                ELSE IF o.sample # "ok"
                THEN Result(rf.st, EmptyDict, rf.reqs \o <<request>>, rf.reads)
                ELSE Saved(rf, IF expand_relations /\ max_depth > 0
                               THEN ExpandRelationFields(rf.st, sample_record, model_name,
                                                         relation_fields, max_depth, o)
                               ELSE Result(rf.st, sample_record, <<>>, {}))
    IN  Sampled(GetFields(st, model_name, TRUE, FALSE, o))

\* refresh_cache that leaves the sample record files on disk.
RefreshCacheKeepingSamples(st, o) ==
    LET cleared == [InitMemory(st) EXCEPT
                        !.models_file = None,
                        !.models_info_file = None,
                        !.fields_files = [k \in FsKeys |-> None]]
        Reloaded(r1, r2) == Result(r2.st, None, r1.reqs \o r2.reqs, r1.reads \cup r2.reads)
        Preloaded(r1) == Reloaded(r1, GetModelsInfo(r1.st, TRUE, TRUE, o))
    IN  Preloaded(GetModels(cleared, TRUE, TRUE, o))

\* refresh_cache()
RefreshCache(st, o) ==
    LET cleared == [InitMemory(st) EXCEPT
                        !.models_file = None,
                        !.models_info_file = None,
                        !.fields_files = [k \in FsKeys |-> None],
                        !.sample_files = [k \in FsKeys |-> None]]
        Reloaded(r1, r2) == Result(r2.st, None, r1.reqs \o r2.reqs, r1.reads \cup r2.reads)
        Preloaded(r1) == Reloaded(r1, GetModelsInfo(r1.st, TRUE, TRUE, o))
    IN  Preloaded(GetModels(cleared, TRUE, TRUE, o))

----------------------------------------------------------------------------
\* The selection.

\* x in a list
InList(x, list) == \E i \in DOMAIN list : list[i] = x

\* select_model that adds the name without looking it up.
SelectModelUnchecked(st, model_name, o) ==
    LET Looked(r) ==
            Result([r.st EXCEPT !.selected_models = @ \cup {model_name}],
                   None, r.reqs, r.reads)
    IN  Looked(GetModels(st, TRUE, FALSE, o))

\* select_model(model_name)
SelectModel(st, model_name, o) ==
    LET Looked(r) ==
            IF InList(model_name, r.ret)
            THEN Result([r.st EXCEPT !.selected_models = @ \cup {model_name}],
                        None, r.reqs, r.reads)
            ELSE Result(r.st, None, r.reqs, r.reads)
    IN  Looked(GetModels(st, TRUE, FALSE, o))

\* deselect_model that drops the model's field selection with it.
DeselectModelForgetting(st, model_name) ==
    IF model_name \in st.selected_models
    THEN Result([st EXCEPT !.selected_models = @ \ {model_name},
                           !.selected_fields[model_name] = None], None, <<>>, {})
    ELSE Result(st, None, <<>>, {})

\* deselect_model(model_name)
DeselectModel(st, model_name) ==
    IF model_name \in st.selected_models
    THEN Result([st EXCEPT !.selected_models = @ \ {model_name}], None, <<>>, {})
    ELSE Result(st, None, <<>>, {})

\* clear_selected_models()
ClearSelectedModels(st) == Result([st EXCEPT !.selected_models = {}], None, <<>>, {})

----------------------------------------------------------------------------
\* The field picker (select_fields_for_model and its curses loop).

\* Rows of the picker's list that fit on the screen: curses.LINES - 7.
PageSize == 2

\* field_name.startswith('_'), for the field names of FieldOrder.
StartsWithUnderscore(field_name) == field_name \in {"_x"}

\* The labels of the fields (field_info.get("string", field_name)), ascending as
\* Python compares str.
LabelOrder ==
    <<"TIMEZONE", "Timezone", "_x", "child_ids", "code", "country_id", "display",
      "email", "lang", "name", "partner_id", "ref", "tz">>

LabelRank(string) == CHOOSE i \in DOMAIN LabelOrder : LabelOrder[i] = string

IsRelationType(type) == type \in {"many2one", "one2many", "many2many"}

\* self.selected_fields.get(model_name, set())
SelectedFieldsOf(st, model_name) ==
    IF st.selected_fields[model_name] = None THEN {}
    ELSE st.selected_fields[model_name][1]

\* The key field_items.sort orders by, as a number: required first, relations
\* last, then the label.
SortKey(item) ==
    (IF item.required THEN 0 ELSE 1) * 2 * (Len(LabelOrder) + 1)
    + (IF IsRelationType(item.type) THEN 1 ELSE 0) * (Len(LabelOrder) + 1)
    + LabelRank(item.string)

\* list.sort(key=...): stable, ascending.
RECURSIVE SortItems(_)
SortItems(items) ==
    IF items = <<>> THEN <<>>
    ELSE LET least == CHOOSE i \in DOMAIN items :
                          \A j \in DOMAIN items :
                              \/ SortKey(items[i]) < SortKey(items[j])
                              \/ SortKey(items[i]) = SortKey(items[j]) /\ i <= j
         IN  <<items[least]>>
             \o SortItems(SubSeq(items, 1, least - 1)
                          \o SubSeq(items, least + 1, Len(items)))

\* The rows _field_selector_ui builds before its loop: one per field whose name
\* does not start with '_', ticked when selected before or required.  The sample
\* value of a row is only drawn and is left out.
FieldItems(fields, selected) ==
    LET shown == SelectSeq(InSchemaOrder(DOMAIN fields),
                           LAMBDA f : ~StartsWithUnderscore(f))
    IN  SortItems([i \in DOMAIN shown |->
                     [name |-> shown[i],
                      type |-> DictGet(fields[shown[i]], "type", "unknown"),
                      string |-> DictGet(fields[shown[i]], "string", shown[i]),
                      required |-> DictGet(fields[shown[i]], "required", FALSE),
                      selected |-> shown[i] \in selected
                                   \/ DictGet(fields[shown[i]], "required", FALSE)]])

\* selected_fields[model_name] after the loop that builds the rows: what it held,
\* and the required fields among the rows.
WithRequired(st, model_name, fields) ==
    SelectedFieldsOf(st, model_name)
        \cup {f \in DOMAIN fields :
                 /\ ~StartsWithUnderscore(f)
                 /\ DictGet(fields[f], "required", FALSE)}

\* _field_selector_ui up to its first getch: the rows are built, the required
\* fields among them are added to the selection, the cursor is on the first row.
\* opened is no variable of the code: it records, for the properties, what the
\* selection of the model was when the loop of the picker was entered.
OpenPicker(st, model_name, fields) ==
    [st EXCEPT
        !.selected_fields[model_name] = Some(WithRequired(st, model_name, fields)),
        !.picker = [model |-> model_name,
                    field_items |-> FieldItems(fields, SelectedFieldsOf(st, model_name)),
                    current_pos |-> 0, page_start |-> 0,
                    opened |-> WithRequired(st, model_name, fields)]]

\* select_fields_for_model(model_name), up to the picker's first getch.
SelectFieldsForModel(st, model_name, o) ==
    LET Shown(rf, rs) ==
            Result(OpenPicker(rs.st, model_name, rf.ret), None,
                   rf.reqs \o rs.reqs, rf.reads \cup rs.reads)
        Looked(rf) ==
            IF rf.ret = EmptyDict
            THEN Result(rf.st, None, rf.reqs, rf.reads)
            ELSE Shown(rf, GetSampleRecord(rf.st, model_name, TRUE, 1, TRUE, FALSE, o))
    IN  Looked(GetFields(st, model_name, TRUE, FALSE, o))

Max(a, b) == IF a > b THEN a ELSE b

Keys == {"q", "a", "n", "space", "up", "down", "ppage", "npage", "enter", "x"}

\* The 'n' key that unticks and removes every row's field.
SelectNoneAtAll(p, selected) ==
    [items |-> [i \in DOMAIN p.field_items |->
                    [p.field_items[i] EXCEPT !.selected = FALSE]],
     selected |-> selected \ {p.field_items[i].name : i \in DOMAIN p.field_items}]

\* The 'n' key: the rows that are not required are unticked and their fields
\* removed from the selection.
SelectNone(p, selected) ==
    [items |-> [i \in DOMAIN p.field_items |->
                    IF p.field_items[i].required THEN p.field_items[i]
                    ELSE [p.field_items[i] EXCEPT !.selected = FALSE]],
     selected |-> selected \ {p.field_items[i].name :
                                 i \in {j \in DOMAIN p.field_items :
                                           ~p.field_items[j].required}}]

\* The space key on the row under the cursor: a required row is left alone.
Toggle(p, selected) ==
    LET field == p.field_items[p.current_pos + 1] IN
    IF field.required THEN [items |-> p.field_items, selected |-> selected]
    ELSE [items |-> [p.field_items EXCEPT ![p.current_pos + 1].selected = ~field.selected],
          selected |-> IF ~field.selected THEN selected \cup {field.name}
                       ELSE selected \ {field.name}]

\* One pass of the loop of _field_selector_ui after getch returned key.  'q' and
\* Enter leave the picker; so does an IndexError of field_items[current_pos],
\* which select_fields_for_model catches.
PickerKey(st, key) ==
    LET p == st.picker
        model_name == p.model
        n == Len(p.field_items)
        selected == SelectedFieldsOf(st, model_name)
        Changed(c) ==
            Result([st EXCEPT !.selected_fields[model_name] = Some(c.selected),
                              !.picker.field_items = c.items], None, <<>>, {})
        Moved(current_pos, page_start) ==
            Result([st EXCEPT !.picker.current_pos = current_pos,
                              !.picker.page_start = page_start], None, <<>>, {})
        Left == Result([st EXCEPT !.picker = None], None, <<>>, {})
    IN  CASE key \in {"q", "enter"} -> Left
          [] key = "a" ->
                Changed([items |-> [i \in DOMAIN p.field_items |->
                                       [p.field_items[i] EXCEPT !.selected = TRUE]],
                         selected |-> selected \cup {p.field_items[i].name :
                                                       i \in DOMAIN p.field_items}])
          [] key = "n" -> Changed(SelectNone(p, selected))
          [] key = "space" ->
                IF p.current_pos + 1 \in DOMAIN p.field_items
                THEN Changed(Toggle(p, selected))
                ELSE Left
          [] key = "up" ->
                IF p.current_pos > 0
                THEN Moved(p.current_pos - 1,
                           IF p.current_pos - 1 < p.page_start
                           THEN Max(0, p.page_start - 1) ELSE p.page_start)
                ELSE Moved(p.current_pos, p.page_start)
          [] key = "down" ->
                IF p.current_pos < n - 1
                THEN Moved(p.current_pos + 1,
                           IF p.current_pos + 1 >= p.page_start + PageSize
                           THEN p.page_start + 1 ELSE p.page_start)
                ELSE Moved(p.current_pos, p.page_start)
          [] key = "ppage" ->
                Moved(Max(0, p.current_pos - PageSize), Max(0, p.page_start - PageSize))
          [] key = "npage" ->
                Moved(Min(n - 1, p.current_pos + PageSize),
                      Max(0, Min(n - PageSize, p.page_start + PageSize)))
          [] OTHER -> Moved(p.current_pos, p.page_start)

----------------------------------------------------------------------------
\* Analysis and the schema export.

\* "not self.selected_models": the truth value of a set is whether it has a
\* member.  NotNever is the test that takes every set for a non-empty one.
NotNever(members) == FALSE
Not(members) == members = {}

RelationTypes == <<"many2one", "one2many", "many2many">>

\* str.lower() of a label.
Lower(string) == IF string \in {"Timezone", "TIMEZONE"} THEN "timezone" ELSE string

\* get_model_relationships(model_name): per relation type, one entry per field of
\* that type that names a relation, in schema order.
GetModelRelationships(st, model_name, o) ==
    LET Bucketed(rf) ==
            Result(rf.st,
                   [t \in {RelationTypes[i] : i \in DOMAIN RelationTypes} |->
                       LET names == SelectSeq(InSchemaOrder(DOMAIN rf.ret),
                                       LAMBDA f :
                                           /\ DictGet(rf.ret[f], "type", None) = t
                                           /\ DictGet(rf.ret[f], "relation", None) # None)
                       IN  [i \in DOMAIN names |->
                               [field |-> names[i],
                                model |-> rf.ret[names[i]].relation,
                                string |-> DictGet(rf.ret[names[i]], "string", names[i]),
                                required |-> DictGet(rf.ret[names[i]], "required", FALSE),
                                related |-> DictGet(rf.ret[names[i]], "related", ""),
                                relation_field |->
                                    DictGet(rf.ret[names[i]], "relation_field", "")]]],
                   rf.reqs, rf.reads)
    IN  Bucketed(GetFields(st, model_name, TRUE, FALSE, o))

\* analyze_model(model_name): the schema, fetched when not held, and what is
\* counted and listed from it.  An unknown model has the empty schema.
AnalyzeModel(st, model_name, o) ==
    LET Analysed(rf, rr) ==
            LET fields == rf.ret
                names == InSchemaOrder(DOMAIN fields)
            IN  Result(rr.st,
                       [model |-> model_name,
                        field_count |-> Cardinality(DOMAIN fields),
                        field_types |->
                            [t \in {DictGet(fields[f], "type", "unknown") : f \in DOMAIN fields}
                                |-> Cardinality({f \in DOMAIN fields :
                                        DictGet(fields[f], "type", "unknown") = t})],
                        relationships |-> rr.ret,
                        required_fields |->
                            SelectSeq(names, LAMBDA f : DictGet(fields[f], "required", FALSE)),
                        common_fields |->
                            SelectSeq(names, LAMBDA f :
                                f \in {"name", "active", "create_date", "write_date",
                                       "create_uid", "write_uid"}),
                        computed_fields |->
                            SelectSeq(names, LAMBDA f : DictGet(fields[f], "compute", FALSE)),
                        search_fields |->
                            SelectSeq(names, LAMBDA f :
                                DictGet(fields[f], "index", FALSE)
                                \/ DictGet(fields[f], "search", FALSE)),
                        fields |-> fields],
                       rf.reqs \o rr.reqs, rf.reads \cup rr.reads)
        Related(rf) == Analysed(rf, GetModelRelationships(rf.st, model_name, o))
    IN  Related(GetFields(st, model_name, TRUE, FALSE, o))

\* The entry of model_name in self.models_info_cache, or None.
ModelInfoOf(st, model_name) ==
    IF st.models_info_cache = None THEN None
    ELSE LET infos == st.models_info_cache[1]
             found == {i \in DOMAIN infos : DictGet(infos[i], "model", None) = model_name}
         IN  IF found = {} THEN None
             ELSE Some(infos[CHOOSE i \in found : \A j \in found : i <= j])

\* get_model_description(model_name)
GetModelDescription(st, model_name, o) ==
    LET Described(r) ==
            Result(r.st,
                   IF ModelInfoOf(r.st, model_name) = None THEN ""
                   ELSE DictGet(DictGet(ModelInfoOf(r.st, model_name)[1], "info", EmptyDict),
                                "string", ""),
                   r.reqs, r.reads)
    IN  IF st.models_info_cache = None
        THEN Described(GetModelsInfo(st, TRUE, FALSE, o))
        ELSE Described(Result(st, None, <<>>, {}))

\* is_transient_model(model_name)
IsTransientModel(st, model_name, o) ==
    LET Looked(r) ==
            Result(r.st,
                   IF ModelInfoOf(r.st, model_name) = None THEN FALSE
                   ELSE DictGet(ModelInfoOf(r.st, model_name)[1], "transient", FALSE),
                   r.reqs, r.reads)
    IN  IF st.models_info_cache = None
        THEN Looked(GetModelsInfo(st, TRUE, FALSE, o))
        ELSE Looked(Result(st, None, <<>>, {}))

\* A set of model names, in the order Python iterates it.  The order of a set of
\* str follows the hashes of the process (PYTHONHASHSEED) and the set's history;
\* o.order is the order of this call.
Iterate(names, o) == SelectSeq(o.order, LAMBDA m : m \in names)

\* field_name == 'tz' or field_info.get('string', '').lower() == 'timezone'
IsTimezoneField(field_name, field_info) ==
    field_name = "tz" \/ Lower(DictGet(field_info, "string", "")) = "timezone"

\* The arguments of export_selected_models; output_file is None or a path.
ExportArgs(output_file, include_relationships, depth, exclude_timezone, timezone_handling) ==
    [output_file |-> output_file, include_relationships |-> include_relationships,
     depth |-> depth, exclude_timezone |-> exclude_timezone,
     timezone_handling |-> timezone_handling]

\* The entry export_selected_models stores for one field, before any flag.
FieldEntry(field_name, field_info) ==
    [name |-> field_name,
     type |-> DictGet(field_info, "type", "char"),
     string |-> DictGet(field_info, "string", field_name),
     required |-> DictGet(field_info, "required", FALSE),
     readonly |-> DictGet(field_info, "readonly", FALSE),
     help |-> DictGet(field_info, "help", ""),
     selection |-> DictGet(field_info, "selection", <<>>),
     relation |-> DictGet(field_info, "relation", None),
     domain |-> DictGet(field_info, "domain", ""),
     store |-> DictGet(field_info, "store", TRUE)]

\* The stored field that is flagged as a timezone field by its name alone.
ExportedFieldFlaggedByName(field_name, field_info, a) ==
    IF a.timezone_handling /\ field_name = "tz"
    THEN ("is_timezone" :> TRUE) @@ FieldEntry(field_name, field_info)
    ELSE FieldEntry(field_name, field_info)

\* What export_selected_models stores for one field: the entry, flagged when
\* timezone_handling is set and the field is a timezone field.
ExportedField(field_name, field_info, a) ==
    IF a.timezone_handling /\ IsTimezoneField(field_name, field_info)
    THEN ("is_timezone" :> TRUE) @@ FieldEntry(field_name, field_info)
    ELSE FieldEntry(field_name, field_info)

\* The fields export_selected_models keeps of a schema that lets every unselected
\* field through.
ExportedFieldsUnselected(st, model_name, fields, a) ==
    LET kept == SelectSeq(InSchemaOrder(DOMAIN fields), LAMBDA f :
                    /\ ~StartsWithUnderscore(f)
                    /\ ~(DictGet(fields[f], "compute", FALSE)
                           /\ ~DictGet(fields[f], "store", FALSE))
                    /\ ~(a.exclude_timezone /\ IsTimezoneField(f, fields[f])))
    IN  [i \in DOMAIN kept |-> ExportedField(kept[i], fields[kept[i]], a)]

\* The fields export_selected_models keeps of a schema, in schema order: the
\* selected ones when the model has a selection, less the internal ones, the
\* computed ones that are not stored and, on request, the timezone ones.
ExportedFields(st, model_name, fields, a) ==
    LET selected == SelectedFieldsOf(st, model_name)
        is_field_selection_active == selected # {}
        kept == SelectSeq(InSchemaOrder(DOMAIN fields), LAMBDA f :
                    /\ ~(is_field_selection_active /\ f \notin selected)
                    /\ ~StartsWithUnderscore(f)
                    /\ ~(DictGet(fields[f], "compute", FALSE)
                           /\ ~DictGet(fields[f], "store", FALSE))
                    /\ ~(a.exclude_timezone /\ IsTimezoneField(f, fields[f])))
    IN  [i \in DOMAIN kept |-> ExportedField(kept[i], fields[kept[i]], a)]

\* The edges export_selected_models appends for one analysed model.
ExportedEdges(model_name, relationships) ==
    LET Edges(t) ==
            [i \in DOMAIN relationships[t] |->
                [from_model |-> model_name,
                 to_model |-> relationships[t][i].model,
                 field |-> relationships[t][i].field,
                 type |-> t,
                 label |-> relationships[t][i].string,
                 required |-> relationships[t][i].required,
                 relation_field |-> relationships[t][i].relation_field]]
    IN  Edges("many2one") \o Edges("one2many") \o Edges("many2many")

\* processed_models.add(model_name), and the same forgetting the model.
MarkNothing(processed_models, model_name) == processed_models
MarkProcessed(processed_models, model_name) == processed_models \cup {model_name}

\* The body of "for model_name in current_models" of export_selected_models.  acc:
\* the explorer's state, export_data, models_to_process, processed_models, and the
\* requests and reads so far.
ExportModel(acc, model_name, a, o) ==
    IF model_name \in acc.processed_models THEN acc
    ELSE
    LET Processed(ra, rd, rt) ==
            LET edges == IF a.include_relationships
                         THEN ExportedEdges(model_name, ra.ret.relationships)
                         ELSE <<>>
            IN  [st |-> rt.st,
                 models |-> Append(acc.models,
                                [model |-> model_name,
                                 fields |-> ExportedFields(rt.st, model_name,
                                                           ra.ret.fields, a),
                                 description |-> rd.ret,
                                 transient |-> rt.ret]),
                 relationships |-> acc.relationships \o edges,
                 models_to_process |->
                     acc.models_to_process
                     \cup {edges[i].to_model :
                             i \in {j \in DOMAIN edges :
                                       /\ edges[j].to_model \notin acc.processed_models
                                       /\ a.depth > 1}},
                 processed_models |-> MarkProcessed(acc.processed_models, model_name),
                 analysed |-> Append(acc.analysed, model_name),
                 reqs |-> acc.reqs \o ra.reqs \o rd.reqs \o rt.reqs,
                 reads |-> acc.reads \cup ra.reads \cup rd.reads \cup rt.reads]
        Described(ra, rd) == Processed(ra, rd, IsTransientModel(rd.st, model_name, o))
        Analysed(ra) == Described(ra, GetModelDescription(ra.st, model_name, o))
    IN  Analysed(AnalyzeModel(acc.st, model_name, o))

RECURSIVE ExportModels(_, _, _, _)
ExportModels(acc, current_models, a, o) ==
    IF current_models = <<>> THEN acc
    ELSE ExportModels(ExportModel(acc, Head(current_models), a, o),
                      Tail(current_models), a, o)

\* len(range(n)), and the same counting n + 1 passes.
RangeLenInclusive(n) == IF n >= 0 THEN n + 1 ELSE 0
RangeLen(n) == IF n > 0 THEN n ELSE 0

\* A result together with the calls of analyze_model that were made for it.
Called(calls, r) == ("calls" :> calls) @@ r

\* "for _ in range(depth)" of export_selected_models, with levels passes to go.
RECURSIVE ExportLevels(_, _, _, _)
ExportLevels(acc, levels, a, o) ==
    IF levels <= 0 \/ acc.models_to_process \ acc.processed_models = {} THEN acc
    ELSE ExportLevels(
            ExportModels(acc, Iterate(acc.models_to_process \ acc.processed_models, o),
                         a, o),
            levels - 1, a, o)

\* The value export_selected_models builds from what the loop left.
ExportData(acc, a) ==
    [models |-> acc.models, relationships |-> acc.relationships,
     timezone_handling |-> a.timezone_handling]

\* export_selected_models(output_file, include_relationships, depth,
\* exclude_timezone, timezone_handling)
ExportSelectedModels(st, a, o) ==
    IF Not(st.selected_models) THEN Result(st, EmptyDict, <<>>, {})
    ELSE LET Saved(acc) ==
                 Called(acc.analysed,
                        Result(IF a.output_file # None
                               THEN [acc.st EXCEPT !.out_file = Some(ExportData(acc, a))]
                               ELSE acc.st,
                               ExportData(acc, a), acc.reqs, acc.reads))
         IN  Saved(ExportLevels([st |-> st, models |-> <<>>, relationships |-> <<>>,
                                 models_to_process |-> st.selected_models,
                                 processed_models |-> {}, analysed |-> <<>>,
                                 reqs |-> <<>>, reads |-> {}],
                                RangeLen(a.depth), a, o))

----------------------------------------------------------------------------
\* The generators for mobile development.

\* A str built by a generator, as its varying parts; the empty str has none.
Text(parts) == [text |-> parts]
EmptyText == Text(<<>>)

\* A result of a method that raised.
Raised(st, reqs, reads) == [Result(st, None, reqs, reads) EXCEPT !.raised = TRUE]

\* 'timezone' in s.lower(), for the field names and labels of the schemas.
HasTimezone(s) == Lower(s) = "timezone"

\* The entry of field_metadata for one field.
FieldMetadata(field_name, field_info) ==
    [name |-> field_name,
     label |-> DictGet(field_info, "string", field_name),
     type |-> DictGet(field_info, "type", "char"),
     required |-> DictGet(field_info, "required", FALSE),
     relation |-> DictGet(field_info, "relation", None),
     readonly |-> DictGet(field_info, "readonly", FALSE),
     help |-> DictGet(field_info, "help", ""),
     selection |-> DictGet(field_info, "selection", <<>>)]

\* _generate_react_native_component: the template is fixed; what varies is the
\* model's name and the fields listed.  The list is built by iterating a set of
\* names, so it is kept as the set of its entries.
ReactNativeComponent(model_name, field_metadata) ==
    [component |-> model_name, file_name |-> FsKey(model_name), fields |-> field_metadata]

\* The explorer after self.selected_fields.get(model_name, set()): get() adds no
\* entry to the defaultdict.  AfterIndexing is the explorer after
\* self.selected_fields[model_name], which adds an empty entry for a missing key.
AfterIndexing(st, model_name) ==
    IF st.selected_fields[model_name] = None
    THEN [st EXCEPT !.selected_fields[model_name] = Some({})]
    ELSE st
AfterGet(st, model_name) == st

\* The field map whose default, with nothing selected, is every field of the schema.
FieldMapOfAllFields(st, model_name, fields) ==
    LET selected == IF SelectedFieldsOf(st, model_name) = {}
                    THEN DOMAIN fields
                    ELSE SelectedFieldsOf(st, model_name)
    IN  {FieldMetadata(f, fields[f]) : f \in selected \cap DOMAIN fields}

\* field_metadata of generate_react_native_field_map: the selected fields, or with
\* nothing selected the fields whose name does not start with '_'; a name the
\* schema does not hold is skipped.
FieldMap(st, model_name, fields) ==
    LET selected == IF SelectedFieldsOf(st, model_name) = {}
                    THEN {f \in DOMAIN fields : ~StartsWithUnderscore(f)}
                    ELSE SelectedFieldsOf(st, model_name)
    IN  {FieldMetadata(f, fields[f]) : f \in selected \cap DOMAIN fields}

\* generate_react_native_field_map(model_name, output_file)
GenerateReactNativeFieldMap(st, model_name, output_file, o) ==
    LET Generated(rf) ==
            LET component == ReactNativeComponent(model_name,
                                                  FieldMap(rf.st, model_name, rf.ret))
            IN  Result(IF output_file # None
                       THEN [AfterGet(rf.st, model_name) EXCEPT
                                !.out_file = Some(component)]
                       ELSE AfterGet(rf.st, model_name),
                       component, rf.reqs, rf.reads)
    IN  Generated(GetFields(st, model_name, TRUE, FALSE, o))

\* The endpoints analyze_for_mobile_app lists for a model.
RequiredEndpoints(model_name) ==
    <<[method |-> "GET", path |-> <<"search_read", model_name>>, purpose |-> "List view"],
      [method |-> "GET", path |-> <<"read", model_name>>, purpose |-> "Detail view"],
      [method |-> "POST", path |-> <<"create", model_name>>, purpose |-> "Create record"],
      [method |-> "PUT", path |-> <<"write", model_name>>, purpose |-> "Update record"]>>

\* The fields analyze_for_mobile_app looks at: the selected ones when the model has
\* a selection, less the internal ones, in schema order.
AnalysedFields(st, model_name, fields) ==
    LET selected == SelectedFieldsOf(st, model_name)
        is_field_selection_active == selected # {}
    IN  SelectSeq(InSchemaOrder(DOMAIN fields), LAMBDA f :
            /\ ~(is_field_selection_active /\ f \notin selected)
            /\ ~StartsWithUnderscore(f))

\* model_result of analyze_for_mobile_app for a model with a schema.
MobileModelResult(st, model_name, fields) ==
    LET names == AnalysedFields(st, model_name, fields)
        Entry(f) == [name |-> f,
                     type |-> DictGet(fields[f], "type", "unknown"),
                     string |-> DictGet(fields[f], "string", f)]
        Listed(keep(_)) ==
            LET kept == SelectSeq(names, keep) IN [i \in DOMAIN kept |-> Entry(kept[i])]
        IsKey(f) == f \in {"name", "display_name", "state", "date", "create_date"}
                    \/ DictGet(fields[f], "required", FALSE)
        IsHeavy(f) == DictGet(fields[f], "type", "unknown") \in {"binary", "html"}
        IsTz(f) == f = "tz" \/ HasTimezone(f)
                   \/ HasTimezone(DictGet(fields[f], "string", ""))
        keys == SelectSeq(names, IsKey)
    IN  [model |-> model_name,
         key_fields |-> [i \in DOMAIN keys |->
                            ("required" :> DictGet(fields[keys[i]], "required", FALSE))
                            @@ Entry(keys[i])],
         heavy_fields |-> Listed(IsHeavy),
         required_endpoints |-> RequiredEndpoints(model_name),
         timezone_fields |-> Listed(IsTz)]

\* The body of "for model_name in self.selected_models" of analyze_for_mobile_app.
MobileModel(acc, model_name, o) ==
    LET Analysed(rf) ==
            IF rf.ret = EmptyDict
            THEN [acc EXCEPT !.st = rf.st, !.reqs = @ \o rf.reqs,
                             !.reads = @ \cup rf.reads]
            ELSE [st |-> rf.st,
                  models |-> Append(acc.models,
                                    MobileModelResult(rf.st, model_name, rf.ret)),
                  api_endpoints |-> acc.api_endpoints \o RequiredEndpoints(model_name),
                  reqs |-> acc.reqs \o rf.reqs,
                  reads |-> acc.reads \cup rf.reads]
    IN  Analysed(GetFields(acc.st, model_name, TRUE, FALSE, o))

RECURSIVE MobileModels(_, _, _)
MobileModels(acc, models, o) ==
    IF models = <<>> THEN acc
    ELSE MobileModels(MobileModel(acc, Head(models), o), Tail(models), o)

\* results of analyze_for_mobile_app; the fixed recommendations are left out, and
\* no workflow applies to the models at hand.
MobileResults(acc) ==
    [models |-> acc.models, api_endpoints |-> acc.api_endpoints,
     key_workflows |-> <<>>,
     timezone_handling |-> \E i \in DOMAIN acc.models :
                               acc.models[i].timezone_fields # <<>>]

\* analyze_for_mobile_app(output_file)
AnalyzeForMobileApp(st, output_file, o) ==
    IF Not(st.selected_models) THEN Result(st, EmptyDict, <<>>, {})
    ELSE LET Saved(acc) ==
                 Result(IF output_file # None
                        THEN [acc.st EXCEPT !.out_file = Some(MobileResults(acc))]
                        ELSE acc.st,
                        MobileResults(acc), acc.reqs, acc.reads)
         IN  Saved(MobileModels([st |-> st, models |-> <<>>, api_endpoints |-> <<>>,
                                 reqs |-> <<>>, reads |-> {}],
                                Iterate(st.selected_models, o), o))

\* generate_api_endpoints_summary(output_file): the endpoints of the analysis,
\* grouped by the model their path ends with, in order of first appearance.
GenerateApiEndpointsSummary(st, output_file, o) ==
    IF Not(st.selected_models) THEN Result(st, EmptyText, <<>>, {})
    ELSE LET Summed(ra) ==
                 LET summary ==
                         Text([models |->
                                 [i \in DOMAIN ra.ret.models |->
                                     [model |-> ra.ret.models[i].model,
                                      endpoints |->
                                          SelectSeq(ra.ret.api_endpoints, LAMBDA e :
                                              e.path[2] = ra.ret.models[i].model)]]])
                 IN  Result(IF output_file # None
                            THEN [ra.st EXCEPT !.out_file = Some(summary)]
                            ELSE ra.st,
                            summary, ra.reqs, ra.reads)
         IN  Summed(AnalyzeForMobileApp(st, None, o))

\* A loop "for model_name in ...: get_sample_record(model_name,
\* expand_relations=True, max_depth=1)": the non-empty samples in order.
RECURSIVE SampleModels(_, _, _)
SampleModels(acc, models, o) ==
    IF models = <<>> THEN acc
    ELSE LET Sampled(rs) ==
                 [st |-> rs.st,
                  samples |-> IF rs.ret = EmptyDict THEN acc.samples
                              ELSE Append(acc.samples,
                                          [model |-> Head(models), record |-> rs.ret]),
                  reqs |-> acc.reqs \o rs.reqs,
                  reads |-> acc.reads \cup rs.reads]
             Next1(acc1) == SampleModels(acc1, Tail(models), o)
         IN  Next1(Sampled(GetSampleRecord(acc.st, Head(models), TRUE, 1, TRUE, FALSE, o)))

\* The arguments of the two prompt exporters.
PromptArgs(output_file, app_description, framework, exclude_timezone, timezone_handling) ==
    [output_file |-> output_file, app_description |-> app_description,
     framework |-> framework, exclude_timezone |-> exclude_timezone,
     timezone_handling |-> timezone_handling]

\* The text of export_llm_prompt, as its varying parts in the order they are
\* written: description, a section per exported model with a row per field, the
\* relationship rows, the timezone section, the sample records.
LlmPrompt(a, export_data, samples) ==
    [app_description |-> a.app_description,
     models |-> [i \in DOMAIN export_data.models |->
                    [model |-> export_data.models[i].model,
                     description |-> export_data.models[i].description,
                     transient |-> export_data.models[i].transient,
                     rows |-> [j \in DOMAIN export_data.models[i].fields |->
                                  LET f == export_data.models[i].fields[j] IN
                                  <<f.name, f.type, f.relation, f.string,
                                    f.required, f.readonly, f.help>>]]],
     relationships |-> [i \in DOMAIN export_data.relationships |->
                           LET rel == export_data.relationships[i] IN
                           <<rel.from_model, rel.type, rel.to_model, rel.field,
                             rel.label, rel.required>>],
     timezone |-> a.timezone_handling /\ export_data.timezone_handling,
     samples |-> samples]

\* export_llm_prompt(output_file, app_description, exclude_timezone,
\* timezone_handling)
ExportLlmPrompt(st, a, o) ==
    IF Not(st.selected_models) THEN Result(st, EmptyText, <<>>, {})
    ELSE LET Written(re, acc) ==
                 LET prompt == Text(LlmPrompt(a, re.ret, acc.samples)) IN
                 Result(IF a.output_file # None
                        THEN [acc.st EXCEPT !.out_file = Some(prompt)]
                        ELSE acc.st,
                        prompt, re.reqs \o acc.reqs, re.reads \cup acc.reads)
             Exported(re) ==
                 Written(re, SampleModels([st |-> re.st, samples |-> <<>>,
                                           reqs |-> <<>>, reads |-> {}],
                                          [i \in DOMAIN re.ret.models |->
                                              re.ret.models[i].model], o))
         IN  Exported(ExportSelectedModels(
                          st, ExportArgs(None, TRUE, 2, a.exclude_timezone,
                                         a.timezone_handling), o))

\* The sample component of export_mobile_app_llm_prompt: of the first selected
\* model, in the order of the set, that has a field to show.
RECURSIVE SampleComponent(_, _, _)
SampleComponent(acc, models, o) ==
    IF models = <<>> THEN acc
    ELSE LET Shown(rf) ==
                 LET names == {f \in DOMAIN rf.ret :
                                  /\ ~StartsWithUnderscore(f)
                                  /\ \/ SelectedFieldsOf(rf.st, Head(models)) = {}
                                     \/ f \in SelectedFieldsOf(rf.st, Head(models))}
                     acc1 == [st |-> rf.st, component |-> acc.component,
                              reqs |-> acc.reqs \o rf.reqs,
                              reads |-> acc.reads \cup rf.reads]
                 IN  IF names # {}
                     THEN [acc1 EXCEPT !.component =
                              Some(ReactNativeComponent(Head(models),
                                      {FieldMetadata(f, rf.ret[f]) : f \in names}))]
                     ELSE SampleComponent(acc1, Tail(models), o)
         IN  Shown(GetFields(acc.st, Head(models), TRUE, FALSE, o))

\* framework.lower() == "react-native", for the frameworks tried.
IsReactNative(framework) == framework \in {"react-native", "React-Native"}

\* The text of export_mobile_app_llm_prompt, as its varying parts.
MobilePrompt(a, mobile_analysis, samples, component) ==
    [app_description |-> a.app_description,
     framework |-> a.framework,
     api_endpoints |-> mobile_analysis.api_endpoints,
     models |-> [i \in DOMAIN mobile_analysis.models |->
                    [model |-> mobile_analysis.models[i].model,
                     key_fields |-> mobile_analysis.models[i].key_fields,
                     heavy_fields |-> mobile_analysis.models[i].heavy_fields]],
     samples |-> samples,
     timezone |-> IF a.timezone_handling /\ mobile_analysis.timezone_handling
                  THEN Some(SelectSeq([i \in DOMAIN mobile_analysis.models |->
                                         [model |-> mobile_analysis.models[i].model,
                                          timezone_fields |->
                                              mobile_analysis.models[i].timezone_fields]],
                                      LAMBDA m : m.timezone_fields # <<>>))
                  ELSE None,
     component |-> component]

\* export_mobile_app_llm_prompt(output_file, app_description, framework,
\* timezone_handling)
ExportMobileAppLlmPrompt(st, a, o) ==
    IF Not(st.selected_models) THEN Result(st, EmptyText, <<>>, {})
    ELSE LET Written(ra, accs, accc) ==
                 LET prompt == Text(MobilePrompt(a, ra.ret, accs.samples,
                                                 accc.component)) IN
                 Result(IF a.output_file # None
                        THEN [accc.st EXCEPT !.out_file = Some(prompt)]
                        ELSE accc.st,
                        prompt, ra.reqs \o accs.reqs \o accc.reqs,
                        ra.reads \cup accs.reads \cup accc.reads)
             Sampled(ra, accs) ==
                 Written(ra, accs,
                         IF IsReactNative(a.framework)
                         THEN SampleComponent([st |-> accs.st, component |-> None,
                                               reqs |-> <<>>, reads |-> {}],
                                              Iterate(accs.st.selected_models, o), o)
                         ELSE [st |-> accs.st, component |-> None,
                               reqs |-> <<>>, reads |-> {}])
             Analysed(ra) ==
                 Sampled(ra, SampleModels([st |-> ra.st, samples |-> <<>>,
                                           reqs |-> <<>>, reads |-> {}],
                                          [i \in DOMAIN ra.ret.models |->
                                              ra.ret.models[i].model], o))
         IN  Analysed(AnalyzeForMobileApp(st, None, o))

\* '.' in model_name: whether model_name.split('.')[1] exists.
HasDot(model_name) == InList(".", model_name)

\* The notes export_mobile_app_dev_package derives from the fields it lists.
PackageNotes(field_list) ==
    {[field |-> f.name, type |-> f.type] :
        f \in {g \in field_list : g.type \in {"many2one", "binary", "one2many", "many2many"}}}

\* package["fields"] of export_mobile_app_dev_package: built by iterating a set of
\* names, so kept as the set of its entries.
PackageFields(st, model_name, fields) ==
    LET selected == IF SelectedFieldsOf(st, model_name) = {}
                    THEN {f \in DOMAIN fields : ~StartsWithUnderscore(f)}
                    ELSE SelectedFieldsOf(st, model_name)
    IN  {[name |-> f,
          type |-> DictGet(fields[f], "type", "char"),
          label |-> DictGet(fields[f], "string", f),
          required |-> DictGet(fields[f], "required", FALSE),
          relation |-> IF IsRelationType(DictGet(fields[f], "type", None))
                       THEN DictGet(fields[f], "relation", None) ELSE None] :
         f \in selected \cap DOMAIN fields}

\* export_mobile_app_dev_package(model_name, output_file).  The list screen's
\* sample code takes model_name.split('.')[1], an IndexError for a name without
\* a dot, before anything else is asked for.
ExportMobileAppDevPackage(st, model_name, output_file, o) ==
    LET Packed(rm, rl, rf, rr, rs, rc) ==
            LET package ==
                    [model |-> model_name,
                     list_screen_record |-> rl.ret,
                     fields |-> PackageFields(rf.st, model_name, rf.ret),
                     relationships |->
                         LET edges == ExportedEdges(model_name, rr.ret) IN
                         [i \in DOMAIN edges |->
                             [from_model |-> edges[i].from_model,
                              to_model |-> edges[i].to_model,
                              field |-> edges[i].field,
                              type |-> edges[i].type,
                              label |-> edges[i].label]],
                     sample_record |-> rs.ret,
                     react_native_component |-> rc.ret,
                     notes |-> PackageNotes(PackageFields(rf.st, model_name, rf.ret))]
            IN  Result(IF output_file # None
                       THEN [rc.st EXCEPT !.out_file = Some(package)]
                       ELSE rc.st,
                       package,
                       rm.reqs \o rl.reqs \o rf.reqs \o rr.reqs \o rs.reqs \o rc.reqs,
                       rm.reads \cup rl.reads \cup rf.reads \cup rr.reads
                           \cup rs.reads \cup rc.reads)
        Sampled(rm, rl, rf, rr, rs) ==
            Packed(rm, rl, rf, rr, rs,
                   GenerateReactNativeFieldMap(rs.st, model_name, None, o))
        Related(rm, rl, rf, rr) ==
            Sampled(rm, rl, rf, rr,
                    GetSampleRecord(rr.st, model_name, TRUE, 1, TRUE, FALSE, o))
        Listed(rm, rl, rf) ==
            Related(rm, rl, rf, GetModelRelationships(rf.st, model_name, o))
        Screened(rm, rl) == Listed(rm, rl, GetFields(rl.st, model_name, TRUE, FALSE, o))
        Validated(rm) ==
            IF ~InList(model_name, rm.ret)
            THEN Result(rm.st, EmptyDict, rm.reqs, rm.reads)
            ELSE IF ~HasDot(model_name)
            THEN Raised(rm.st, rm.reqs, rm.reads)
            ELSE Screened(rm, GetSampleRecord(rm.st, model_name, TRUE, 2, TRUE, FALSE, o))
    IN  Validated(GetModels(st, TRUE, FALSE, o))

----------------------------------------------------------------------------
\* Calls and the environment's answers.

Args(model, use_cache, refresh_cache, expand_relations, max_depth, relation_fields) ==
    [model |-> model, use_cache |-> use_cache, refresh_cache |-> refresh_cache,
     expand_relations |-> expand_relations, max_depth |-> max_depth,
     relation_fields |-> relation_fields]

NoArgs == Args(None, TRUE, FALSE, FALSE, 0, <<>>)

\* "query in model.lower()" for a query that is empty or one part of a name.
QueryIn(query, model) ==
    query = "" \/ \E i \in DOMAIN model : Lower(model[i]) = query

\* search_models(query): get_models() when self.models_cache is None, then the
\* names of self.models_cache that hold the query; iterating None raises TypeError.
SearchModels(st, query, o) ==
    LET Searched(r) ==
            IF r.st.models_cache = None THEN Raised(r.st, r.reqs, r.reads)
            ELSE Result(r.st,
                        SelectSeq(r.st.models_cache[1],
                                  LAMBDA model : QueryIn(Lower(query), model)),
                        r.reqs, r.reads)
    IN  Searched(IF st.models_cache = None THEN GetModels(st, TRUE, FALSE, o)
                 ELSE Result(st, None, <<>>, {}))

\* The arguments of a call on a model, and of a key press.
OnModel(model) == Args(model, TRUE, FALSE, FALSE, 0, <<>>)
KeyArgs(key) == [key |-> key] @@ NoArgs

Call(op, args) == [op |-> op, args |-> args]

\* The method a call names, applied.
Apply(st, call, o) ==
    LET a == call.args IN
    CASE call.op = "get_models" ->
            GetModels(st, a.use_cache, a.refresh_cache, o)
      [] call.op = "get_models_info" ->
            GetModelsInfo(st, a.use_cache, a.refresh_cache, o)
      [] call.op = "get_fields" ->
            GetFields(st, a.model, a.use_cache, a.refresh_cache, o)
      [] call.op = "get_sample_record" ->
            GetSampleRecord(st, a.model, a.expand_relations, a.max_depth,
                            a.use_cache, a.refresh_cache, o)
      [] call.op = "_expand_relation_fields" ->
            ExpandRelationFields(st, ServerRecord(a.model, o), a.model,
                                 a.relation_fields, a.max_depth, o)
      [] call.op = "refresh_cache" -> RefreshCache(st, o)
      [] call.op = "select_model" -> SelectModel(st, a.model, o)
      [] call.op = "deselect_model" -> DeselectModel(st, a.model)
      [] call.op = "clear_selected_models" -> ClearSelectedModels(st)
      [] call.op = "select_fields_for_model" -> SelectFieldsForModel(st, a.model, o)
      [] call.op = "getch" -> PickerKey(st, a.key)
      [] call.op = "search_models" -> SearchModels(st, a.query, o)
      [] OTHER -> Result(InitSelection(InitMemory(st)), None, <<>>, {})

----------------------------------------------------------------------------
\* src/tools/model-explorer: the stand-in explorer of the diagram tool and the
\* diagram generator.

\* One entry of the stand-in's field lists; relation is None where the entry has
\* no "relation" key.
MockField(field_name, type, relation, string, required) ==
    [field_name |-> field_name, type |-> type, relation |-> relation,
     string |-> string, required |-> required]

\* _mock_model_data(): self.model_cache.
MockModelData ==
    (ResPartner :>
        <<MockField("country_id", "many2one", ResCountry, "Country", FALSE),
          MockField("user_ids", "one2many", ResUsers, "Users", FALSE),
          MockField("name", "char", None, "Name", TRUE)>>)
    @@ (ResCountry :> <<MockField("name", "char", None, "Country Name", TRUE)>>)
    @@ (ResUsers :>
        <<MockField("login", "char", None, "Login", TRUE),
          MockField("partner_id", "many2one", ResPartner, "Partner", TRUE)>>)

\* analyze_model(model_name) of the stand-in: raises ValueError for a model that is
\* not in model_cache.
MockAnalyzeModel(st, model_name) ==
    IF model_name \notin DOMAIN MockModelData THEN Raised(st, <<>>, {})
    ELSE LET fields == MockModelData[model_name]
             Of(t) == SelectSeq(fields, LAMBDA f : f.type = t)
             types == {fields[i].type : i \in DOMAIN fields}
             required == SelectSeq(fields, LAMBDA f : f.required)
         IN  Result(st,
                    [field_count |-> Len(fields),
                     field_types |-> [t \in types |-> Len(Of(t))],
                     relationships |->
                         [t \in {x \in types : IsRelationType(x)} |->
                             [i \in DOMAIN Of(t) |->
                                 [field |-> Of(t)[i].field_name,
                                  string |-> Of(t)[i].string,
                                  model |-> IF Of(t)[i].relation = None THEN ""
                                            ELSE Of(t)[i].relation]]],
                     required_fields |->
                         [i \in DOMAIN required |-> required[i].field_name]],
                    <<>>, {})

\* An order in which a set of model names may be iterated, and the orders tried.
SetOrder == <<ResUsers, ResPartner, ResPartnerU, ResCountry, NoSuch>>
Reverse(s) == [i \in DOMAIN s |-> s[Len(s) + 1 - i]]
SetOrders == {SetOrder, Reverse(SetOrder)}

\* DiagramFormatter.format: a line of the diagram, as its varying parts.
DiagramLine(field_type, model_name, relation, field_name) ==
    [model |-> FsKey(model_name),
     arrow |-> IF field_type \in {"many2one", "one2many", "many2many", "one2one"}
               THEN field_type ELSE "unknown type",
     relation |-> relation, field |-> field_name]

\* The two renderers: their first and last line, their style lines, and the line
\* of a relationship.
Renderers == {"PlantUML", "Mermaid"}
StartDiagram(renderer) ==
    [line |-> IF renderer = "PlantUML" THEN "@startuml" ELSE "graph TD"]
EndDiagram(renderer) == [line |-> IF renderer = "PlantUML" THEN "@enduml" ELSE ""]
ApplyStyle(renderer, style_config) ==
    IF renderer = "PlantUML"
    THEN (IF DictGet(style_config, "monochrome", FALSE)
          THEN <<[line |-> "skinparam monochrome true"]>> ELSE <<>>)
         \o (IF "background_color" \in DOMAIN style_config
             THEN <<[line |-> "skinparam backgroundColor", color |-> style_config.background_color]>>
             ELSE <<>>)
    ELSE <<>>
Render(renderer, field_type, model_name, relation, field_name) ==
    IF renderer = "PlantUML"
    THEN DiagramLine(field_type, model_name, relation, field_name)
    ELSE [model |-> FsKey(model_name),
          mermaid |-> IF field_type \in {"many2one", "one2many", "many2many"}
                      THEN field_type ELSE "else",
          relation |-> relation, field |-> field_name]

\* Renderable that asks for no type.
RenderableUntyped(field) == field.field_name # "" /\ field.relation # None

\* "if field_type and field_name and relation": an absent or empty type or name
\* is "", an absent or empty relation is None.
Renderable(field) == field.type # "" /\ field.field_name # "" /\ field.relation # None

\* "for related_model in related_models: if related_model != current_model:
\* queue.append(...)", the set taken in the given order.
QueueRelated(queue, related_models, current_model, current_depth, order) ==
    LET appended == SelectSeq(order, LAMBDA m : m \in related_models /\ m # current_model)
    IN  IF current_depth > 1
        THEN queue \o [i \in DOMAIN appended |->
                          [model |-> appended[i], depth |-> current_depth - 1]]
        ELSE queue

\* "while queue": run |-> the lines so far, the models in processed_models in the
\* order they were added, and the number of popleft() made.  The loop is followed
\* for fuel passes; ended tells whether the queue ran empty within them.
RECURSIVE DiagramLoop(_, _, _, _, _)
DiagramLoop(renderer, a, queue, run, fuel) ==
    IF queue = <<>> THEN [run EXCEPT !.ended = TRUE]
    ELSE IF fuel = 0 THEN run
    ELSE LET current_model == Head(queue).model
             current_depth == Head(queue).depth
             popped == [run EXCEPT !.pops = @ + 1]
         IN  IF InList(current_model, run.processed_models) \/ current_depth <= 0
             THEN DiagramLoop(renderer, a, Tail(queue), popped, fuel - 1)
             ELSE LET current_fields == IF current_model = a.model THEN a.fields ELSE <<>>
                      rendered == SelectSeq(current_fields, Renderable)
                      related_models == {rendered[i].relation : i \in DOMAIN rendered}
                  IN  DiagramLoop(
                          renderer, a,
                          QueueRelated(Tail(queue), related_models, current_model,
                                       current_depth, a.order),
                          [popped EXCEPT
                              !.processed_models = Append(@, current_model),
                              !.lines = @ \o [i \in DOMAIN rendered |->
                                                 Render(renderer, rendered[i].type,
                                                        current_model,
                                                        rendered[i].relation,
                                                        rendered[i].field_name)]],
                          fuel - 1)

\* The passes the loop is followed for: more than a queue of the model and one
\* entry per field can need.
DiagramFuel(fields) == 2 * (Len(fields) + 2)

\* OdooDiagramGenerator(renderer).export_model_diagram(model_name, fields, depth,
\* output_file, style_config): ValueError for no model name; "" at depth <= 0;
\* else the start line, the style lines, the lines of the loop and the end line,
\* written to output_file when one is given.  calls keeps the run of the loop.
ExportModelDiagram(st, renderer, a) ==
    IF a.model = None THEN Raised(st, <<>>, {})
    ELSE IF a.depth <= 0 THEN Result(st, EmptyText, <<>>, {})
    ELSE LET Returned(run) ==
                 LET diagram == Text(run.lines \o <<EndDiagram(renderer)>>)
                 IN  Called(<<run>>,
                            Result(IF a.output_file # None
                                   THEN [st EXCEPT !.out_file = Some(diagram)]
                                   ELSE st,
                                   diagram, <<>>, {}))
         IN  Returned(DiagramLoop(
                          renderer, a, <<[model |-> a.model, depth |-> a.depth]>>,
                          [lines |-> <<StartDiagram(renderer)>>
                                     \o ApplyStyle(renderer, a.style_config),
                           processed_models |-> <<>>, pops |-> 0, ended |-> FALSE],
                          DiagramFuel(a.fields)))

\* The arguments of the generator's export_model_diagram; order is the order in
\* which the set related_models is iterated.
GeneratorArgs(model, fields, depth, output_file, style_config, order) ==
    [fields |-> fields, depth |-> depth, output_file |-> output_file,
     style_config |-> style_config, order |-> order] @@ OnModel(model)

\* export_model_diagram(model_name, depth, output_file) of the stand-in: raises
\* ValueError for a model that is not in model_cache.
MockExportModelDiagram(st, model_name, depth, output_file) ==
    IF model_name \notin DOMAIN MockModelData THEN Raised(st, <<>>, {})
    ELSE ExportModelDiagram(st, "PlantUML",
                            GeneratorArgs(model_name, MockModelData[model_name], depth,
                                          output_file, EmptyDict, SetOrder))

----------------------------------------------------------------------------
\* explore(): one pass of the menu loop on an export option.  args.is_interactive
\* is sys.stdin.isatty(); args.entered is what the user types at the file name
\* prompt ("" for Enter); at the optional prompts the user presses Enter.

\* "input(...) or default if is_interactive else default"
EnteredOr(a, default) ==
    IF a.is_interactive /\ a.entered # "" THEN a.entered ELSE default

\* What a pass of the loop showed after the call it made: the lines it printed,
\* and whether the generator logged its "No models selected" warning, which it
\* does exactly when it returns its empty value.
Printed(r, lines) ==
    Result(r.st,
           [printed |-> lines, warned |-> (r.ret = EmptyDict \/ r.ret = EmptyText)],
           r.reqs, r.reads)

\* choice == "9"
ExploreGenerateSelectionFile(st, call, o) ==
    LET output_file == EnteredOr(call.args, "selected_models.json")
        Reported(r) == Printed(r, <<<<"Exported selected models to", output_file>>>>)
    IN  Reported(ExportSelectedModels(
                     st, ExportArgs(Some(output_file), TRUE, 1, FALSE, FALSE), o))

\* choice == "11"
ExploreExportLlmPrompt(st, call, o) ==
    LET output_file == EnteredOr(call.args, "llm_prompt.txt")
        Reported(r) == Printed(r, <<<<"Exported LLM prompt to", output_file>>>>)
    IN  Reported(ExportLlmPrompt(
                     st, PromptArgs(Some(output_file), "", "", FALSE, FALSE), o))

\* choice == "13": without an output file the analysis is printed, model by model,
\* from analysis["models"]; the empty dict of an empty selection has no such key.
ExploreAnalyzeForMobileApp(st, call, o) ==
    LET output_file == IF call.args.is_interactive THEN call.args.entered ELSE ""
        Reported(r) ==
            IF output_file # "" THEN Printed(r, <<>>)
            ELSE IF r.ret = EmptyDict THEN Raised(r.st, r.reqs, r.reads)
            ELSE Printed(r, <<"Mobile app analysis:">>
                            \o [i \in DOMAIN r.ret.models |->
                                   <<r.ret.models[i].model,
                                     r.ret.models[i].key_fields,
                                     r.ret.models[i].heavy_fields>>])
    IN  Reported(AnalyzeForMobileApp(
                     st, IF output_file # "" THEN Some(output_file) ELSE None, o))

\* choice == "14"
ExploreGenerateApiEndpointsSummary(st, call, o) ==
    LET output_file == EnteredOr(call.args, "api_endpoints.md")
        Reported(r) ==
            Printed(r, <<<<"Generated API endpoints summary in", output_file>>>>)
    IN  Reported(GenerateApiEndpointsSummary(st, Some(output_file), o))

\* choice == "15"
ExploreExportMobileAppLlmPrompt(st, call, o) ==
    LET output_file == EnteredOr(call.args, "mobile_llm_prompt.txt")
        Reported(r) ==
            Printed(r, <<<<"Exported mobile app LLM prompt to", output_file>>>>)
    IN  Reported(ExportMobileAppLlmPrompt(
                     st, PromptArgs(Some(output_file), "", "react-native", FALSE, TRUE),
                     o))

\* The generators, each as the method a call of it applies.
CallExportSelectedModels(st, call, o) == ExportSelectedModels(st, call.args, o)
CallGenerateReactNativeFieldMap(st, call, o) ==
    GenerateReactNativeFieldMap(st, call.args.model, call.args.output_file, o)
CallAnalyzeForMobileApp(st, call, o) == AnalyzeForMobileApp(st, call.args.output_file, o)
CallGenerateApiEndpointsSummary(st, call, o) ==
    GenerateApiEndpointsSummary(st, call.args.output_file, o)
CallExportLlmPrompt(st, call, o) == ExportLlmPrompt(st, call.args, o)
CallExportMobileAppLlmPrompt(st, call, o) == ExportMobileAppLlmPrompt(st, call.args, o)
CallExportMobileAppDevPackage(st, call, o) ==
    ExportMobileAppDevPackage(st, call.args.model, call.args.output_file, o)
CallAnalyzeModel(st, call, o) == AnalyzeModel(st, call.args.model, o)
CallMockAnalyzeModel(st, call, o) == MockAnalyzeModel(st, call.args.model)
CallExportModelDiagram(st, call, o) ==
    ExportModelDiagram(st, call.args.renderer, call.args)
CallMockExportModelDiagram(st, call, o) ==
    MockExportModelDiagram(st, call.args.model, call.args.depth, call.args.output_file)

FieldNames == {FieldOrder[i] : i \in DOMAIN FieldOrder}
RelAnswers == {"ok", "empty", "errbody", "fail"}
SampleAnswers == {"ok", "empty", "fail"}

\* The environment in which every request fails; ids and country are the server's
\* record at the time of the call.
AllFail(ids, country) ==
    [names |-> "fail", info |-> "fail", fields |-> [m \in Models |-> 0], sample |-> "fail",
     rel |-> [f \in FieldNames |-> "fail"], ids |-> ids, country |-> country,
     order |-> SetOrder]

\* The requests a call may issue, in an order in which whether one is issued
\* depends only on the answers to those before it.
ModelOrder == <<ResPartner, ResPartnerU, ResCountry>>

Site(kind, model, field) == [kind |-> kind, model |-> model, field |-> field]

\* The methods that read the selection, and what they may ask for.
Exporters ==
    {"export_selected_models", "export_llm_prompt", "export_mobile_app_llm_prompt",
     "analyze_for_mobile_app", "generate_api_endpoints_summary",
     "generate_react_native_field_map", "export_mobile_app_dev_package"}

\* The generator an export option of the menu calls.
MenuExporter ==
    ("explore 9" :> "export_selected_models")
    @@ ("explore 11" :> "export_llm_prompt")
    @@ ("explore 13" :> "analyze_for_mobile_app")
    @@ ("explore 14" :> "generate_api_endpoints_summary")
    @@ ("explore 15" :> "export_mobile_app_llm_prompt")

\* During one export the server is down for the schemas or answers all of them
\* from one revision (site "schema"); a set of names has one order (site "order").
ExportSites(call) ==
    <<Site("order", None, "")>>
    \o (IF call.op = "export_mobile_app_dev_package"
        THEN <<Site("names", None, "")>> ELSE <<>>)
    \o (IF call.op \in {"export_selected_models", "export_llm_prompt"}
        THEN <<Site("info", None, "")>> ELSE <<>>)
    \o <<Site("schema", None, "")>>
    \o (IF call.op \in {"export_llm_prompt", "export_mobile_app_llm_prompt",
                       "export_mobile_app_dev_package"}
        THEN <<Site("sample", None, "")>> ELSE <<>>)

Sites(call) ==
    LET model == call.args.model
        others == SelectSeq(ModelOrder, LAMBDA m : m # model)
        expanding == [i \in 1..Len(others) |-> Site("fields", others[i], "")]
                     \o [i \in 1..Len(RelationFieldOrder) |->
                            Site("related", None, RelationFieldOrder[i])]
    IN  CASE call.op = "get_models" -> <<Site("names", None, "")>>
          [] call.op = "get_models_info" -> <<Site("info", None, "")>>
          [] call.op = "refresh_cache" ->
                <<Site("names", None, ""), Site("info", None, "")>>
          [] call.op = "get_fields" -> <<Site("fields", model, "")>>
          [] call.op = "select_model" -> <<Site("names", None, "")>>
          [] call.op = "search_models" -> <<Site("names", None, "")>>
          [] call.op = "get_sample_record" ->
                <<Site("fields", model, ""), Site("sample", None, "")>>
                \o (IF call.args.expand_relations THEN expanding ELSE <<>>)
          [] call.op = "select_fields_for_model" ->
                <<Site("fields", model, ""), Site("sample", None, "")>> \o expanding
          [] call.op \in Exporters -> ExportSites(call)
          [] call.op \in DOMAIN MenuExporter ->
                ExportSites(Call(MenuExporter[call.op], call.args))
          [] call.op = "analyze_model" -> <<Site("fields", model, "")>>
          [] call.op = "_expand_relation_fields" ->
                <<Site("fields", model, "")>> \o expanding
          [] OTHER -> <<>>

Consulted(site, reqs) ==
    \E i \in DOMAIN reqs :
        /\ reqs[i].kind = (IF site.kind = "schema" THEN "fields" ELSE site.kind)
        /\ site.kind = "fields" => reqs[i].model = site.model
        /\ site.kind = "related" => reqs[i].field = site.field

Answers(site) ==
    IF site.kind = "sample" THEN SampleAnswers
    ELSE IF site.kind = "related" THEN RelAnswers
    ELSE IF site.kind = "fields"
    THEN (IF \E i \in DOMAIN ServerModelNames : ServerModelNames[i] = site.model
          THEN 0..MaxVer ELSE {0})
    ELSE IF site.kind = "order" THEN SetOrders
    ELSE IF site.kind = "schema" THEN 0..MaxVer
    ELSE {"ok", "fail"}

SetAnswer(o, site, x) ==
    CASE site.kind = "names" -> [o EXCEPT !.names = x]
      [] site.kind = "info" -> [o EXCEPT !.info = x]
      [] site.kind = "fields" -> [o EXCEPT !.fields[site.model] = x]
      [] site.kind = "sample" -> [o EXCEPT !.sample = x]
      [] site.kind = "order" -> [o EXCEPT !.order = x]
      [] site.kind = "schema" ->
            [o EXCEPT !.fields = [m \in Models |-> IF InList(m, ServerModelNames)
                                                   THEN x ELSE 0]]
      [] OTHER -> [o EXCEPT !.rel[site.field] = x]

\* Whether the call draws on the site: a request of its kind is issued, or, for the
\* order of a set, more than one model is selected.
Consults(Method(_, _, _), st, call, o, site) ==
    IF site.kind = "order" THEN Cardinality(st.selected_models) > 1
    ELSE Consulted(site, Method(st, call, o).reqs)

\* Every way the server can answer the requests of a call, and no answer to a
\* request the call does not issue.
RECURSIVE Environments(_, _, _, _, _)
Environments(Method(_, _, _), st, call, sites, envs) ==
    IF sites = <<>> THEN envs
    ELSE Environments(Method, st, call, Tail(sites),
            UNION {IF Consults(Method, st, call, o, Head(sites))
                   THEN {SetAnswer(o, Head(sites), x) : x \in Answers(Head(sites))}
                   ELSE {o} : o \in envs})

----------------------------------------------------------------------------
\* Actions.

Install(st) ==
    /\ models_cache' = st.models_cache
    /\ models_info_cache' = st.models_info_cache
    /\ fields_cache' = st.fields_cache
    /\ record_cache' = st.record_cache
    /\ models_file' = st.models_file
    /\ models_info_file' = st.models_info_file
    /\ fields_files' = st.fields_files
    /\ sample_files' = st.sample_files
    /\ selected_models' = st.selected_models
    /\ selected_fields' = st.selected_fields
    /\ picker' = st.picker
    /\ out_file' = st.out_file

\* The caller makes the call; the server answers one of the ways it can.  last
\* keeps the call, what it gave, the cache state it started from (pre) and the
\* server's answers (env).
DoMethod(Method(_, _, _), call) ==
    \E o \in Environments(Method, St, call, Sites(call),
                          {AllFail(server_ids, server_country)}) :
        LET Returned(r) ==
                /\ Install(r.st)
                /\ last' = [op |-> call.op, args |-> call.args, ret |-> r.ret,
                            reqs |-> r.reqs, reads |-> r.reads, raised |-> r.raised,
                            calls |-> DictGet(r, "calls", <<>>),
                            pre |-> St, env |-> o]
                /\ UNCHANGED <<server_ids, server_country, workload, access_token>>
        IN  Returned(Method(St, call, o))

\* A call of one of the methods Apply knows.
Do(call) == DoMethod(Apply, call)

Depths == 0..MaxDepth

DoGetModels ==
    /\ workload = "lists"
    /\ \E use_cache, refresh_cache \in BOOLEAN :
          Do(Call("get_models",
                  Args(None, use_cache, refresh_cache, FALSE, 0, <<>>)))

DoGetModelsInfo ==
    /\ workload = "lists"
    /\ \E use_cache, refresh_cache \in BOOLEAN :
          Do(Call("get_models_info",
                  Args(None, use_cache, refresh_cache, FALSE, 0, <<>>)))

\* The caller of the two lists searches the names.
Queries == {"", "partner", "zzz"}

DoSearchModels ==
    /\ workload = "lists"
    /\ \E query \in Queries :
          Do(Call("search_models", [query |-> query] @@ NoArgs))

\* The models the caller of the keyed kinds asks for.
KeyedModels == {ResPartner, ResCountry}

\* The caller of the expander samples when nothing has been called yet, and once
\* more after a sample that went to the server.
MaySample ==
    \/ last.op = "init"
    \/ last.op = "get_sample_record" /\ last.reqs # <<>>

\* Two models of the server whose names differ only in "." and "_", and the
\* models a caller asks for: that pair for the caller who works with it.
CollidingModels == {ResPartner, ResPartnerU}
ModelsAsked == IF workload = "keys" THEN CollidingModels ELSE KeyedModels

DoGetFields ==
    /\ workload \in {"keyed", "keys"}
    /\ \E m \in ModelsAsked, use_cache, refresh_cache \in BOOLEAN :
          Do(Call("get_fields", Args(m, use_cache, refresh_cache, FALSE, 0, <<>>)))

\* The caller of the keyed kinds samples without expansion, with every combination
\* of the cache flags; the caller of the expander samples res.partner with the
\* default cache flags: first with every expansion argument, then with
\* expand_relations either way and max_depth 1.
DoGetSampleRecord ==
    /\ workload \in {"keyed", "expand", "keys"}
    /\ workload = "expand" => MaySample
    /\ \E m \in (IF workload = "expand" THEN {ResPartner} ELSE ModelsAsked),
          expand_relations \in (IF workload = "expand" THEN BOOLEAN ELSE {FALSE}),
          max_depth \in (IF workload # "expand" THEN {MaxDepth}
                         ELSE IF last.op = "init" THEN Depths ELSE {1}),
          use_cache \in (IF workload = "expand" THEN {TRUE} ELSE BOOLEAN),
          refresh_cache \in (IF workload = "expand" THEN {FALSE} ELSE BOOLEAN) :
          Do(Call("get_sample_record",
                  Args(m, use_cache, refresh_cache, expand_relations, max_depth, <<>>)))

\* The relation_fields lists tried by a direct call of _expand_relation_fields.
RelationFieldLists ==
    {<<>>, <<"country_id">>, <<"child_ids">>, <<"country_id", "child_ids">>}

DoExpandRelationFields ==
    /\ workload = "expand"
    /\ last.op = "init"
    /\ \E relation_fields \in RelationFieldLists, depth_remaining \in -1..MaxDepth :
          Do(Call("_expand_relation_fields",
                  Args(ResPartner, TRUE, FALSE, TRUE, depth_remaining, relation_fields)))

DoRefreshCache ==
    /\ workload \in {"lists", "keyed", "keys"}
    /\ Do(Call("refresh_cache", NoArgs))

\* The process ends and a new explorer is constructed over the same cache directory.
Restart ==
    /\ workload \in {"lists", "keyed", "keys"}
    /\ Do(Call("init", NoArgs))

\* The caller of the selection selects and deselects models by name.
DoSelectModel ==
    /\ workload = "select"
    /\ \E m \in Models :
          Do(Call("select_model", Args(m, TRUE, FALSE, FALSE, 0, <<>>)))

DoDeselectModel ==
    /\ workload = "select"
    /\ \E m \in Models :
          Do(Call("deselect_model", Args(m, TRUE, FALSE, FALSE, 0, <<>>)))

DoClearSelectedModels ==
    /\ workload = "select"
    /\ Do(Call("clear_selected_models", NoArgs))

\* The caller of the picker opens it on a model and presses keys until it closes.
PickedModels == {ResUsers, NoSuch}

DoSelectFieldsForModel ==
    /\ workload = "pick"
    /\ picker = None
    /\ \E m \in PickedModels : Do(Call("select_fields_for_model", OnModel(m)))

DoGetch ==
    /\ workload = "pick"
    /\ picker # None
    /\ \E key \in Keys : Do(Call("getch", KeyArgs(key)))

\* The models the exporting caller may have selected, and the field selections a
\* picker session on res.users may have left.
ExportedModels == {ResUsers, ResPartner, ResCountry}
UsersSelections ==
    {None, Some({"name", "partner_id"}), Some({"name", "partner_id", "tz", "display"})}

\* The caller of the exporters makes one call, with any arguments.
ExportDepths == 0..(MaxDepth + 1)
OutputFiles == {None, Some("out")}

DoExportSelectedModels ==
    /\ workload = "export"
    /\ last.op = "init"
    /\ \E output \in OutputFiles, depth \in ExportDepths,
          include_relationships, exclude_timezone, timezone_handling \in BOOLEAN :
          DoMethod(CallExportSelectedModels,
                   Call("export_selected_models",
                        ExportArgs(output, include_relationships, depth,
                                   exclude_timezone, timezone_handling) @@ NoArgs))

\* The arguments of a generator that takes a model and an output file.
FileArgs(model, output_file) == [output_file |-> output_file] @@ OnModel(model)

DoGenerateReactNativeFieldMap ==
    /\ workload = "export"
    /\ last.op = "init"
    /\ \E m \in ExportedModels \cup {NoSuch}, output \in OutputFiles :
          DoMethod(CallGenerateReactNativeFieldMap,
                   Call("generate_react_native_field_map", FileArgs(m, output)))

DoAnalyzeForMobileApp ==
    /\ workload = "export"
    /\ last.op = "init"
    /\ \E output \in OutputFiles :
          DoMethod(CallAnalyzeForMobileApp,
                   Call("analyze_for_mobile_app", FileArgs(None, output)))

DoGenerateApiEndpointsSummary ==
    /\ workload = "export"
    /\ last.op = "init"
    /\ \E output \in OutputFiles :
          DoMethod(CallGenerateApiEndpointsSummary,
                   Call("generate_api_endpoints_summary", FileArgs(None, output)))

AppDescriptions == {"", "field service"}
Frameworks == {"react-native", "flutter"}

DoExportLlmPrompt ==
    /\ workload = "export"
    /\ last.op = "init"
    /\ \E output \in OutputFiles, app_description \in AppDescriptions,
          exclude_timezone, timezone_handling \in BOOLEAN :
          DoMethod(CallExportLlmPrompt,
                   Call("export_llm_prompt",
                        PromptArgs(output, app_description, "", exclude_timezone,
                                   timezone_handling) @@ NoArgs))

DoExportMobileAppLlmPrompt ==
    /\ workload = "export"
    /\ last.op = "init"
    /\ \E output \in OutputFiles, framework \in Frameworks,
          timezone_handling \in BOOLEAN :
          DoMethod(CallExportMobileAppLlmPrompt,
                   Call("export_mobile_app_llm_prompt",
                        PromptArgs(output, "", framework, FALSE, timezone_handling)
                        @@ NoArgs))

DoExportMobileAppDevPackage ==
    /\ workload = "export"
    /\ last.op = "init"
    /\ \E m \in ExportedModels \cup {ResPartnerU, NoSuch}, output \in OutputFiles :
          DoMethod(CallExportMobileAppDevPackage,
                   Call("export_mobile_app_dev_package", FileArgs(m, output)))

\* analyze_model called by itself, on a model of the server and on an unknown one.
DoAnalyzeModel ==
    /\ workload = "export"
    /\ last.op = "init"
    /\ \E m \in ExportedModels \cup {NoSuch} :
          DoMethod(CallAnalyzeModel, Call("analyze_model", OnModel(m)))

\* The models the diagram tool is asked about.
DiagramModels == {ResPartner, ResUsers, NoSuch}

\* The arguments of export_model_diagram.
DiagramArgs(model, depth, output_file) ==
    [depth |-> depth, output_file |-> output_file] @@ OnModel(model)

DoMockAnalyzeModel ==
    /\ workload = "export"
    /\ last.op = "init"
    /\ \E m \in DiagramModels :
          DoMethod(CallMockAnalyzeModel, Call("tools.analyze_model", OnModel(m)))

DoMockExportModelDiagram ==
    /\ workload = "export"
    /\ last.op = "init"
    /\ \E m \in DiagramModels, depth \in ExportDepths, output \in OutputFiles :
          DoMethod(CallMockExportModelDiagram,
                   Call("tools.export_model_diagram", DiagramArgs(m, depth, output)))

\* The field lists the generator is given for res.partner: none; fields that
\* relate the model to itself; fields that share a related model, one of a type
\* the formatter does not know, and fields without a name, a type or a relation.
DiagramField(field_name, type, relation) ==
    [field_name |-> field_name, type |-> type, relation |-> relation]
DiagramFieldLists ==
    {<<>>,
     <<DiagramField("parent_id", "many2one", ResPartner),
       DiagramField("child_ids", "one2many", ResPartner),
       DiagramField("user_id", "many2one", ResUsers)>>,
     <<DiagramField("country_id", "many2one", ResCountry),
       DiagramField("name", "char", None),
       DiagramField("user_ids", "one2many", ResUsers),
       DiagramField("", "many2one", ResUsers),
       DiagramField("ref", "", ResPartnerU),
       DiagramField("origin_id", "reference", ResCountry)>>}
DiagramDepths == (0 - 1)..MaxDepth
StyleConfigs == {EmptyDict, [monochrome |-> TRUE, background_color |-> "white"]}

DoExportModelDiagram ==
    /\ workload = "export"
    /\ last.op = "init"
    /\ \E renderer \in Renderers, m \in {ResPartner, None}, fields \in DiagramFieldLists,
          depth \in DiagramDepths, output \in OutputFiles, style \in StyleConfigs,
          order \in SetOrders :
          DoMethod(CallExportModelDiagram,
                   Call("export_model_diagram",
                        [renderer |-> renderer]
                        @@ GeneratorArgs(m, fields, depth, output, style, order)))

\* The user of the menu picks an export option; Entered is what may be typed at
\* the file name prompt.
Entered == {"", "out"}
MenuArgs(is_interactive, entered) ==
    [is_interactive |-> is_interactive, entered |-> entered] @@ NoArgs
MenuInputs ==
    {MenuArgs(TRUE, entered) : entered \in Entered} \cup {MenuArgs(FALSE, "")}

DoExploreGenerateSelectionFile ==
    /\ workload = "export"
    /\ last.op = "init"
    /\ \E a \in MenuInputs : DoMethod(ExploreGenerateSelectionFile, Call("explore 9", a))

DoExploreExportLlmPrompt ==
    /\ workload = "export"
    /\ last.op = "init"
    /\ \E a \in MenuInputs : DoMethod(ExploreExportLlmPrompt, Call("explore 11", a))

DoExploreAnalyzeForMobileApp ==
    /\ workload = "export"
    /\ last.op = "init"
    /\ \E a \in MenuInputs : DoMethod(ExploreAnalyzeForMobileApp, Call("explore 13", a))

DoExploreGenerateApiEndpointsSummary ==
    /\ workload = "export"
    /\ last.op = "init"
    /\ \E a \in MenuInputs :
          DoMethod(ExploreGenerateApiEndpointsSummary, Call("explore 14", a))

DoExploreExportMobileAppLlmPrompt ==
    /\ workload = "export"
    /\ last.op = "init"
    /\ \E a \in MenuInputs :
          DoMethod(ExploreExportMobileAppLlmPrompt, Call("explore 15", a))

InitCaches ==
    /\ models_cache = None
    /\ models_info_cache = None
    /\ record_cache = [m \in Models |-> None]
    /\ models_file = None
    /\ models_info_file = None
    /\ sample_files = [k \in FsKeys |-> None]
    /\ selected_models = {}
    /\ selected_fields = [m \in Models |-> None]
    /\ picker = None
    /\ out_file = None

\* No call has been made yet.
InitLast ==
    last = [op |-> "init", args |-> NoArgs, ret |-> None, reqs |-> <<>>,
            reads |-> {}, raised |-> FALSE, calls |-> <<>>, pre |-> St,
            env |-> AllFail(server_ids, server_country)]

\* A fresh installation; the caller works with the two lists or with the keyed
\* kinds; the newest partner has MaxIds children and a country.
Init ==
    /\ InitCaches
    /\ fields_cache = [m \in Models |-> None]
    /\ fields_files = [k \in FsKeys |-> None]
    /\ workload \in {"lists", "keyed"}
    /\ server_ids = IdList(MaxIds)
    /\ server_country = M2oV(12, "Belgium")
    /\ access_token = None
    /\ InitLast

Next ==
    \/ DoGetModels
    \/ DoSearchModels
    \/ DoGetModelsInfo
    \/ DoGetFields
    \/ DoGetSampleRecord
    \/ DoRefreshCache
    \/ Restart

Spec == Init /\ [][Next]_vars

\* The schemas earlier get_fields calls of the process have left, in memory and on
\* disk: of every model, none or one revision.
KnownFields(revs) ==
    [m \in Models |-> IF revs[m] = 0 THEN None ELSE Some(ServerFields(m, revs[m]))]

\* The cache files those calls left.
KnownFiles(revs) ==
    [k \in FsKeys |->
        IF \E m \in KeyedModels : FsKey(m) = k
        THEN KnownFields(revs)[CHOOSE m \in KeyedModels : FsKey(m) = k]
        ELSE None]

\* The expander on its own: any record the server may hold, sampled or handed to
\* _expand_relation_fields directly, once, with any schemas already known.
InitExpand ==
    /\ InitCaches
    /\ \E revs \in [Models -> 0..MaxVer] :
          /\ \A m \in Models \ KeyedModels : revs[m] = 0
          /\ fields_cache = KnownFields(revs)
          /\ fields_files = KnownFiles(revs)
    /\ workload = "expand"
    /\ \E n \in 0..MaxIds :
          /\ server_ids = IdList(n)
          /\ server_country \in (IF n = MaxIds THEN {M2oV(12, "Belgium"), FalseV}
                                             ELSE {M2oV(12, "Belgium")})
    /\ access_token = None
    /\ InitLast

NextExpand ==
    \/ DoGetSampleRecord
    \/ DoExpandRelationFields

SpecExpand == InitExpand /\ [][NextExpand]_vars

\* The selection and the field picker on a fresh installation.
InitSelect ==
    /\ models_cache = None
    /\ models_info_cache = None
    /\ record_cache = [m \in Models |-> None]
    /\ models_file = None
    /\ models_info_file = None
    /\ sample_files = [k \in FsKeys |-> None]
    /\ fields_cache = [m \in Models |-> None]
    /\ fields_files = [k \in FsKeys |-> None]
    /\ workload \in {"select", "pick"}
    /\ selected_models = {}
    /\ \E users \in (IF workload = "select" THEN UsersSelections ELSE {None}) :
          selected_fields = [m \in Models |-> IF m = ResUsers THEN users ELSE None]
    /\ picker = None
    /\ out_file = None
    /\ server_ids = <<>>
    /\ server_country = FalseV
    /\ access_token = None
    /\ InitLast

NextSelect ==
    \/ DoSelectModel
    \/ DoDeselectModel
    \/ DoClearSelectedModels
    \/ DoSelectFieldsForModel
    \/ DoGetch

SpecSelect == InitSelect /\ [][NextSelect]_vars


\* The files the get_fields calls of earlier sessions left for the exported models.
ExportFiles(revs) ==
    [k \in FsKeys |->
        IF \E m \in ExportedModels : FsKey(m) = k
        THEN KnownFields(revs)[CHOOSE m \in ExportedModels : FsKey(m) = k]
        ELSE None]

\* The exporters on their own: any selection, made in this process; the caches
\* hold the lists and the schemas of the exported models, or those and the schema
\* of res.users alone, or nothing (after refresh_cache with the server down).
InitExport ==
    /\ \E held \in {{}, {ResUsers}, ExportedModels} :
          LET revs == [m \in Models |-> IF m \in held THEN MaxVer ELSE 0]
          IN  /\ fields_cache = KnownFields(revs)
              /\ fields_files = ExportFiles(revs)
              /\ models_cache = (IF held # {} THEN Some(ServerModelNames) ELSE None)
              /\ models_file = models_cache
              /\ models_info_cache = (IF held # {} THEN Some(ServerModelsInfo) ELSE None)
              /\ models_info_file = models_info_cache
    /\ record_cache = [m \in Models |-> None]
    /\ sample_files = [k \in FsKeys |-> None]
    /\ selected_models \in SUBSET ExportedModels
    /\ \E users \in (IF ResUsers \in selected_models THEN UsersSelections ELSE {None}) :
          selected_fields = [m \in Models |-> IF m = ResUsers THEN users ELSE None]
    /\ picker = None
    /\ out_file = None
    /\ workload = "export"
    /\ server_ids = <<>>
    /\ server_country = FalseV
    /\ access_token = None
    /\ InitLast

NextExport ==
    \/ DoExportSelectedModels
    \/ DoGenerateReactNativeFieldMap
    \/ DoAnalyzeForMobileApp
    \/ DoGenerateApiEndpointsSummary
    \/ DoExportLlmPrompt
    \/ DoExportMobileAppLlmPrompt
    \/ DoExportMobileAppDevPackage
    \/ DoAnalyzeModel
    \/ DoMockAnalyzeModel
    \/ DoMockExportModelDiagram
    \/ DoExportModelDiagram
    \/ DoExploreGenerateSelectionFile
    \/ DoExploreExportLlmPrompt
    \/ DoExploreAnalyzeForMobileApp
    \/ DoExploreGenerateApiEndpointsSummary
    \/ DoExploreExportMobileAppLlmPrompt

SpecExport == InitExport /\ [][NextExport]_vars

----------------------------------------------------------------------------
\* The vocabulary of the properties.

GetOps == {"get_models", "get_models_info", "get_fields", "get_sample_record"}

KindOf(op) ==
    CASE op = "get_models" -> "names"
      [] op = "get_models_info" -> "info"
      [] op = "get_fields" -> "fields"
      [] op = "get_sample_record" -> "sample"
      [] OTHER -> ""

\* The entry of call c's key in memory and on disk, in cache state st.
MemEntry(st, c) ==
    CASE c.op = "get_models" -> st.models_cache
      [] c.op = "get_models_info" -> st.models_info_cache
      [] c.op = "get_fields" -> st.fields_cache[c.args.model]
      [] OTHER -> st.record_cache[c.args.model]

DiskEntry(st, c) ==
    CASE c.op = "get_models" -> st.models_file
      [] c.op = "get_models_info" -> st.models_info_file
      [] c.op = "get_fields" -> st.fields_files[FsKey(c.args.model)]
      [] OTHER -> st.sample_files[FsKey(c.args.model)]

\* The remote fetches of call c for its own kind and key.
OwnReqs(c) ==
    SelectSeq(c.reqs, LAMBDA r : r.kind = KindOf(c.op) /\ r.model = c.args.model)

\* The value a get returns when it has nothing: [] or {}.
EmptyOf(op) == IF op \in {"get_models", "get_models_info"} THEN EmptyList ELSE EmptyDict

\* Two calls are gets of the same kind and key, both with use_cache=True and
\* refresh_cache=False.
SameCachedGet(c1, c2) ==
    /\ c1.op \in GetOps
    /\ c2.op = c1.op
    /\ c2.args.model = c1.args.model
    /\ c1.args.use_cache /\ ~c1.args.refresh_cache
    /\ c2.args.use_cache /\ ~c2.args.refresh_cache

\* Every remote request of call c was answered with data.
AllAnswered(c) == \A i \in DOMAIN c.reqs : c.reqs[i].status = "ok"

\* Some remote fetch of call c, other than a related read, raised a transport error.
TransportFailed(c) ==
    \E i \in DOMAIN c.reqs : c.reqs[i].status = "fail" /\ c.reqs[i].kind # "related"

----------------------------------------------------------------------------
\* C1 as stated: two consecutive gets of the same kind and key with use_cache=True
\* and refresh_cache=False issue at most one remote fetch for the key between them
\* and the second returns what the first returned.
C1_TwoGetsOneFetch ==
    [][SameCachedGet(last, last')
         => /\ Len(OwnReqs(last)) + Len(OwnReqs(last')) <= 1
            /\ last'.ret = last.ret]_vars

\* C1: two consecutive gets of the same kind and key with use_cache=True and
\* refresh_cache=False, the first of which had every request it issued answered
\* with data: the first issues at most one remote fetch for the key, the second
\* none, and the second returns what the first returned.
C1_CacheIdempotence ==
    [][SameCachedGet(last, last') /\ AllAnswered(last)
         => /\ Len(OwnReqs(last)) <= 1
            /\ OwnReqs(last') = <<>>
            /\ last'.ret = last.ret]_vars

\* A get with the default flags is served the entry an earlier call persisted.
C1_Witness ==
    /\ last.op \in GetOps
    /\ last.args.use_cache /\ ~last.args.refresh_cache
    /\ last.reqs = <<>>
    /\ DiskEntry(last.pre, last) # None
    /\ last.ret = DiskEntry(last.pre, last)[1]
    /\ last.ret # EmptyOf(last.op)

\* C2 as stated: a get called with refresh_cache=True always performs a remote
\* fetch, whatever the cache holds, and when the fetch succeeds the persisted entry
\* of the key is the value fetched (and returned).
C2_RefreshAlwaysFetches ==
    (last.op \in GetOps /\ last.args.refresh_cache)
        => /\ last.reqs # <<>>
           /\ (\E i \in DOMAIN OwnReqs(last) : OwnReqs(last)[i].status = "ok")
                 => DiskEntry(St, last) = Some(last.ret)

C4_RefreshCacheClearsAndReloads ==
    /\ [](last.op = "refresh_cache"
            => /\ \A m \in Models : fields_cache[m] = None /\ record_cache[m] = None
               /\ \A k \in FsKeys : fields_files[k] = None /\ sample_files[k] = None
               /\ Len(last.reqs) = 2
               /\ last.reqs[1].kind = "names"
               /\ last.reqs[2].kind = "info")
    /\ [][(last.op = "refresh_cache" /\ last'.op = "get_fields")
            => OwnReqs(last') # <<>>]_vars

\* refresh_cache run while fields and sample entries existed, both lists reloaded.
C4_Witness ==
    /\ last.op = "refresh_cache"
    /\ \E m \in Models :
          /\ last.pre.fields_cache[m] # None
          /\ last.pre.fields_files[FsKey(m)] # None
          /\ last.pre.sample_files[FsKey(m)] # None
    /\ models_cache # None
    /\ models_info_cache # None

\* C5: a get whose remote fetch fails with a transport error raises nothing,
\* returns the empty value of its kind, and leaves the entry of its key as it was,
\* in memory and on disk.
C5_FailedFetchKeepsCache ==
    (last.op \in GetOps /\ TransportFailed(last))
        => /\ ~last.raised
           /\ last.ret = EmptyOf(last.op)
           /\ MemEntry(St, last) = MemEntry(last.pre, last)
           /\ DiskEntry(St, last) = DiskEntry(last.pre, last)

\* A refetch that fails while the key has a persisted entry, which survives.
C5_Witness ==
    /\ last.op \in GetOps
    /\ \E i \in DOMAIN OwnReqs(last) : OwnReqs(last)[i].status = "fail"
    /\ DiskEntry(last.pre, last) # None
    /\ DiskEntry(St, last) = DiskEntry(last.pre, last)
    /\ last.ret = EmptyOf(last.op)

----------------------------------------------------------------------------
\* The vocabulary of the properties of the expander.

Range(s) == {s[i] : i \in DOMAIN s}

\* The related reads call c issued for relation field f.
RelatedReqs(c, f) ==
    SelectSeq(c.reqs, LAMBDA r : r.kind = "related" /\ r.field = f)

\* Call c ran the expander's loop over relation field f of a res.partner record.
Expanding(c, f) ==
    \/ /\ c.op = "_expand_relation_fields"
       /\ c.args.max_depth > 0
       /\ f \in Range(c.args.relation_fields)
    \/ /\ c.op = "get_sample_record"
       /\ c.args.expand_relations
       /\ c.args.max_depth > 0
       /\ \E i \in DOMAIN c.reqs : c.reqs[i].kind = "sample" /\ c.reqs[i].status = "ok"

ExpanderCall(c) == c.op \in {"_expand_relation_fields", "get_sample_record"}

\* The required fields of a schema the cache holds, none when it holds no schema.
RequiredOf(entry) ==
    IF entry = None THEN {} ELSE {f \in DOMAIN entry[1] : entry[1][f].required}

\* The identifiers the server's res.partner record holds in its relation fields.
HeldIds ==
    Range(server_ids)
        \cup (IF "m2o" \in DOMAIN server_country THEN {server_country.m2o[1]} ELSE {})

\* C6: _expand_relation_fields called with depth_remaining <= 0 or with an empty
\* relation_fields list returns the record it was given, unchanged, issues no
\* remote read and leaves the caches as they were.
C6_NothingToExpand ==
    (/\ last.op = "_expand_relation_fields"
     /\ (last.args.max_depth <= 0 \/ last.args.relation_fields = <<>>))
        => /\ last.ret = ServerRecord(last.args.model, last.env)
           /\ \A k \in DOMAIN last.ret : k \notin {"country_id_expanded", "child_ids_expanded"}
           /\ last.reqs = <<>>
           /\ St = last.pre

\* The expander handed a record with a country and children, both fields listed,
\* and no depth left.
C6_Witness ==
    /\ last.op = "_expand_relation_fields"
    /\ last.args.max_depth = 0
    /\ last.args.relation_fields = <<"country_id", "child_ids">>
    /\ Truthy(server_country)
    /\ server_ids # <<>>
    /\ last.ret = ServerRecord(last.args.model, last.env)

C8_ManyToOneSingleRecord ==
    ExpanderCall(last) =>
        LET rs == RelatedReqs(last, "country_id")
            asked == {"name", "display_name"} \cup RequiredOf(fields_cache[ResCountry])
        IN  /\ Len(rs) <= 1
            /\ (/\ Expanding(last, "country_id")
                /\ fields_cache[ResPartner] # None
                /\ Truthy(server_country))
                  => Len(rs) = 1
            /\ \A i \in DOMAIN rs :
                  /\ rs[i].model = ResCountry
                  /\ rs[i].ids = <<server_country.m2o[1]>>
                  /\ rs[i].limit = 1
                  /\ rs[i].flds = Some(asked)
                  /\ rs[i].status = "ok"
                        => /\ "country_id_expanded" \in DOMAIN last.ret
                           /\ DOMAIN last.ret["country_id_expanded"] = {"rec"}
                           /\ last.ret["country_id_expanded"].rec.id = server_country.m2o[1]
                           /\ last.ret["country_id_expanded"].rec.fields = Some(asked)

\* A country expanded through a read that asks for a required field besides the
\* two names.
C8_Witness ==
    /\ ExpanderCall(last)
    /\ \E i \in DOMAIN last.reqs :
          /\ last.reqs[i].field = "country_id"
          /\ last.reqs[i].status = "ok"
          /\ last.reqs[i].flds = Some({"name", "display_name", "code"})
    /\ "country_id_expanded" \in DOMAIN last.ret

\* C9 as stated: a related read that fails (connection error, timeout or a
\* non-2xx answer) adds no <field>_expanded key for its field, nothing is raised,
\* and every other listed relation field with a value still gets its read.
C9_FailedReadAddsNothing ==
    ExpanderCall(last) =>
        /\ ~last.raised
        /\ \A i \in DOMAIN last.reqs :
              (last.reqs[i].kind = "related" /\ last.reqs[i].status \in {"fail", "errbody"})
                 => (last.reqs[i].field \o "_expanded") \notin DOMAIN last.ret
        /\ (/\ Expanding(last, "country_id")
            /\ fields_cache[ResPartner] # None
            /\ Truthy(server_country))
              => Len(RelatedReqs(last, "country_id")) = 1
        /\ (Expanding(last, "child_ids") /\ fields_cache[ResPartner] # None /\ server_ids # <<>>)
              => Len(RelatedReqs(last, "child_ids")) = 1

\* C10: get_sample_record with expand_relations=True and max_depth >= 1 issues at
\* most one related read per relation field of the sampled record, each for
\* identifiers the sampled record itself holds, and issues the requests and
\* returns the record that the same call with max_depth = 1 does.
C10_OneLevelOnly ==
    (last.op = "get_sample_record" /\ last.args.expand_relations /\ last.args.max_depth >= 1)
        => LET once == GetSampleRecord(last.pre, last.args.model, TRUE, 1,
                                       last.args.use_cache, last.args.refresh_cache,
                                       last.env)
           IN  /\ last.ret = once.ret
               /\ last.reqs = once.reqs
               /\ Len(RelatedReqs(last, "country_id")) <= 1
               /\ Len(RelatedReqs(last, "child_ids")) <= 1
               /\ \A i \in DOMAIN last.reqs :
                     last.reqs[i].kind = "related"
                        => Range(last.reqs[i].ids) \subseteq HeldIds

\* A sample taken with max_depth = 2 whose country and children were both expanded.
C10_Witness ==
    /\ last.op = "get_sample_record"
    /\ last.args.expand_relations
    /\ last.args.max_depth >= 2
    /\ "country_id_expanded" \in DOMAIN last.ret
    /\ "child_ids_expanded" \in DOMAIN last.ret
    /\ "recs" \in DOMAIN last.ret["child_ids_expanded"]

----------------------------------------------------------------------------
----------------------------------------------------------------------------
\* The field picker.

PickerOps == {"select_fields_for_model", "getch"}

\* The model whose fields the picker shows, or showed until the key just pressed.
Inspected ==
    IF picker # None THEN Some(picker.model)
    ELSE IF last.op = "getch" THEN Some(last.pre.picker.model)
    ELSE None

\* The required fields of the schema the explorer holds for model_name.
RequiredFields(model_name) ==
    IF fields_cache[model_name] = None THEN {}
    ELSE {f \in DOMAIN fields_cache[model_name][1] :
             DictGet(fields_cache[model_name][1][f], "required", FALSE)}

\* C12 as stated: once the picker has shown a model, every required field of the
\* model is in selected_fields[model], after any key.
C12_AllRequiredSelected ==
    Inspected # None
        => RequiredFields(Inspected[1]) \subseteq SelectedFieldsOf(St, Inspected[1])

\* C12: once the picker has shown a model, every required field of the model whose
\* name does not start with '_' is in selected_fields[model] and stays there after
\* any key (toggle, select all, select none, cursor moves, confirm, cancel); and no
\* key removes a required field, internal or not, from the selection.
C12_RequiredStaySelected ==
    /\ [](Inspected # None
            => {f \in RequiredFields(Inspected[1]) : ~StartsWithUnderscore(f)}
                 \subseteq SelectedFieldsOf(St, Inspected[1]))
    /\ [][last'.op = "getch"
            => \A f \in RequiredFields(picker.model) :
                  f \in SelectedFieldsOf(St, picker.model)
                      => f \in selected_fields'[picker.model][1]]_vars

\* 'n' was pressed on a picker with optional fields selected and a required field
\* among its rows: the optional ones left the selection.
C12_Witness ==
    /\ last.op = "getch"
    /\ last.args.key = "n"
    /\ picker # None
    /\ SelectedFieldsOf(last.pre, picker.model) # SelectedFieldsOf(St, picker.model)
    /\ \E i \in DOMAIN picker.field_items :
          picker.field_items[i].required /\ picker.field_items[i].selected
    /\ picker.current_pos > 0

----------------------------------------------------------------------------
\* The generators.

\* The schema of model_name the explorer holds after the call: what the call's
\* get_fields gave, the empty dict when the fetch failed.
SchemaOf(model_name) ==
    IF fields_cache[model_name] = None THEN EmptyDict ELSE fields_cache[model_name][1]

Names(entries) == {entries[i].name : i \in DOMAIN entries}

\* The fields a generator is to treat as selected: those of selected_fields[model],
\* or with none selected every field whose name does not start with '_'.
TreatedAsSelected(model_name) ==
    IF SelectedFieldsOf(St, model_name) = {}
    THEN {f \in DOMAIN SchemaOf(model_name) : ~StartsWithUnderscore(f)}
    ELSE SelectedFieldsOf(St, model_name)

\* The fields of the schema that the schema export leaves out whatever is selected.
LeftOutOfExport(model_name, a) ==
    {f \in DOMAIN SchemaOf(model_name) :
        \/ StartsWithUnderscore(f)
        \/ DictGet(SchemaOf(model_name)[f], "compute", FALSE)
             /\ ~DictGet(SchemaOf(model_name)[f], "store", FALSE)
        \/ a.exclude_timezone /\ IsTimezoneField(f, SchemaOf(model_name)[f])}

ComputedUnstored(model_name, f) ==
    /\ DictGet(SchemaOf(model_name)[f], "compute", FALSE)
    /\ ~DictGet(SchemaOf(model_name)[f], "store", FALSE)

ExportedNames(export_data) ==
    [i \in DOMAIN export_data.models |-> export_data.models[i].model]

\* No value occurs twice in the sequence.
NoRepeat(seq) == \A i, j \in DOMAIN seq : i # j => seq[i] # seq[j]

\* C15: in export_selected_models, whatever the relationship graph (self-relations
\* and models reached along several paths included) and whatever the depth, each
\* model is analysed at most once and appears at most once among the exported
\* models, each relationship edge (a relational field of a model) is emitted at
\* most once, and every emitted edge starts from an exported model.
C15_EachModelOnce ==
    (last.op = "export_selected_models" /\ last.ret # EmptyDict)
        => /\ NoRepeat(last.calls)
           /\ NoRepeat(ExportedNames(last.ret))
           /\ NoRepeat([i \in DOMAIN last.ret.relationships |->
                           <<last.ret.relationships[i].from_model,
                             last.ret.relationships[i].field>>])
           /\ \A i \in DOMAIN last.ret.relationships :
                 \E j \in DOMAIN last.ret.models :
                    last.ret.models[j].model = last.ret.relationships[i].from_model

\* res.users and res.partner were both selected and exported with relationships at
\* a depth above one: res.partner is selected, is the target of res.users'
\* partner_id and of its own child_ids, and res.country was added along the way.
C15_Witness ==
    /\ last.op = "export_selected_models"
    /\ last.ret # EmptyDict
    /\ last.args.include_relationships
    /\ last.args.depth > 1
    /\ {ResUsers, ResPartner} \subseteq last.pre.selected_models
    /\ Len(last.calls) = 3
    /\ \E i, j \in DOMAIN last.ret.relationships :
          /\ last.ret.relationships[i].from_model = ResPartner
          /\ last.ret.relationships[i].to_model = ResPartner
          /\ last.ret.relationships[j].from_model = ResUsers
          /\ last.ret.relationships[j].to_model = ResPartner
    /\ \E i \in DOMAIN last.ret.models : last.ret.models[i].model = ResCountry

\* The relational fields of model_name in the schema held after the call: those of
\* a relational type that name a related model.
RelationalFields(model_name) ==
    {f \in DOMAIN SchemaOf(model_name) :
        /\ InList(DictGet(SchemaOf(model_name)[f], "type", None), RelationTypes)
        /\ DictGet(SchemaOf(model_name)[f], "relation", None) # None}

\* The models within hops relationship hops of a model of the set.
RECURSIVE WithinHops(_, _)
WithinHops(models, hops) ==
    IF hops <= 0 THEN models
    ELSE WithinHops(models \cup UNION {{SchemaOf(m)[f].relation :
                                           f \in RelationalFields(m)} : m \in models},
                    hops - 1)

\* The relational fields of the models of the set, as pairs of model and field.
RelationalFieldsOf(models) ==
    UNION {{<<m, f>> : f \in RelationalFields(m)} : m \in models}

\* C16: export_selected_models with include_relationships=True and depth d >= 1
\* exports exactly the models within d - 1 relationship hops of a selected model;
\* with depth 1 these are the selected models, and the relationships list holds
\* exactly one edge per relational field of each selected model, whether or not
\* the edge's to_model is exported.
C16_ExportedWithinDepth ==
    (last.op = "export_selected_models" /\ last.ret # EmptyDict
        /\ last.args.include_relationships /\ last.args.depth >= 1)
        => /\ {last.ret.models[i].model : i \in DOMAIN last.ret.models}
                = WithinHops(last.pre.selected_models, last.args.depth - 1)
           /\ last.args.depth = 1
                => /\ {last.ret.models[i].model : i \in DOMAIN last.ret.models}
                        = last.pre.selected_models
                   /\ {<<e.from_model, e.field, e.to_model, e.type>> :
                          e \in {last.ret.relationships[i] :
                                    i \in DOMAIN last.ret.relationships}}
                        = {<<mf[1], mf[2], SchemaOf(mf[1])[mf[2]].relation,
                             SchemaOf(mf[1])[mf[2]].type>> :
                              mf \in RelationalFieldsOf(last.pre.selected_models)}
                   /\ Len(last.ret.relationships)
                        = Cardinality(RelationalFieldsOf(last.pre.selected_models))

\* res.users alone was exported at depth 1 from a fetched schema: it is the one
\* exported model, and the one edge is res.users -> res.partner via partner_id of
\* type many2one, to a model that is not exported.
C16_Witness ==
    /\ last.op = "export_selected_models"
    /\ last.args.include_relationships
    /\ last.args.depth = 1
    /\ last.pre.selected_models = {ResUsers}
    /\ last.reqs # <<>>
    /\ last.ret # EmptyDict
    /\ Len(last.ret.models) = 1
    /\ Len(last.ret.relationships) = 1
    /\ last.ret.relationships[1].from_model = ResUsers
    /\ last.ret.relationships[1].to_model = ResPartner
    /\ last.ret.relationships[1].field = "partner_id"
    /\ last.ret.relationships[1].type = "many2one"

\* C17: no generator changes the selection: after export_selected_models,
\* export_llm_prompt, export_mobile_app_llm_prompt, analyze_for_mobile_app,
\* generate_api_endpoints_summary, generate_react_native_field_map or
\* export_mobile_app_dev_package, whatever the arguments, the caches and the
\* outcome, selected_models and selected_fields (the models that have an entry
\* included) are what they were before the call.
C17_SelectionUnchanged ==
    last.op \in Exporters
        => /\ selected_models = last.pre.selected_models
           /\ selected_fields = last.pre.selected_fields

\* The field map of res.partner was generated from a fetched schema while
\* res.partner had no entry in selected_fields and res.users had one: res.partner
\* has none afterwards.
C17_Witness ==
    /\ last.op = "generate_react_native_field_map"
    /\ last.args.model = ResPartner
    /\ last.reqs # <<>>
    /\ last.ret.fields # {}
    /\ selected_models # {}
    /\ selected_fields[ResPartner] = None
    /\ selected_fields[ResUsers] # None

\* C18: export_llm_prompt invoked again with the same selection, the same cache
\* contents at the start, the same flags and app description, and the same answers
\* of the server, gives the same text, whatever order the process iterates the set
\* of selected models in: the order of the models, fields and relationship rows of
\* the text is a function of those inputs only.
C18_PromptDeterministic ==
    (last.op = "export_llm_prompt" /\ last.ret # EmptyText)
        => \A order \in SetOrders :
              ExportLlmPrompt(last.pre, last.args,
                              [last.env EXCEPT !.order = order]).ret = last.ret

\* The generators that export the selection as a whole.
SelectionExports ==
    {"export_selected_models", "export_llm_prompt", "export_mobile_app_llm_prompt",
     "analyze_for_mobile_app", "generate_api_endpoints_summary"}

\* C19: with no model selected, export_selected_models and analyze_for_mobile_app
\* return {}, export_llm_prompt, export_mobile_app_llm_prompt and
\* generate_api_endpoints_summary return "", and each of them writes no output
\* file even when one is named, issues no request, reads no cache file and raises
\* nothing.
C19_NothingSelectedNothingExported ==
    (last.op \in SelectionExports /\ last.pre.selected_models = {})
        => /\ last.op \in {"export_selected_models", "analyze_for_mobile_app"}
                => last.ret = EmptyDict
           /\ last.op \in {"export_llm_prompt", "export_mobile_app_llm_prompt",
                           "generate_api_endpoints_summary"}
                => last.ret = EmptyText
           /\ out_file = None
           /\ last.reqs = <<>>
           /\ last.reads = {}
           /\ ~last.raised
           /\ St = last.pre

\* export_llm_prompt was called with an output file named and no model selected.
C19_Witness ==
    /\ last.op = "export_llm_prompt"
    /\ last.args.output_file # None
    /\ last.pre.selected_models = {}
    /\ last.ret = EmptyText
    /\ out_file = None

\* C20: analyze_model(name) and export_model_diagram(name) called with the name of
\* a model that is not known (not on the server for the explorer, not in
\* model_cache for the diagram tool's stand-in) raise to the caller, and never
\* return an analysis or a diagram for it.
C20_UnknownModelRaises ==
    /\ (last.op = "analyze_model" /\ ~InList(last.args.model, ServerModelNames))
        => last.raised /\ last.ret = None
    /\ (last.op \in {"tools.analyze_model", "tools.export_model_diagram"}
           /\ last.args.model \notin DOMAIN MockModelData)
        => last.raised /\ last.ret = None

\* Whether an exported field carries is_timezone = true.
MarkedTimezone(entry) == "is_timezone" \in DOMAIN entry /\ entry.is_timezone

\* C21: in the schema export, exclusion of the timezone fields comes before their
\* flagging: with exclude_timezone true no exported field carries is_timezone,
\* whatever timezone_handling is; with exclude_timezone false and
\* timezone_handling true an exported field carries is_timezone = true exactly when
\* its name is tz or its label, lowered, is "timezone"; with timezone_handling
\* false no exported field carries is_timezone.
C21_ExclusionBeforeFlagging ==
    (last.op = "export_selected_models" /\ last.ret # EmptyDict)
        => \A i \in DOMAIN last.ret.models :
              \A j \in DOMAIN last.ret.models[i].fields :
                 LET entry == last.ret.models[i].fields[j] IN
                 /\ last.args.exclude_timezone => "is_timezone" \notin DOMAIN entry
                 /\ ~last.args.timezone_handling => "is_timezone" \notin DOMAIN entry
                 /\ (~last.args.exclude_timezone /\ last.args.timezone_handling)
                      => /\ "is_timezone" \in DOMAIN entry => entry.is_timezone
                         /\ MarkedTimezone(entry)
                              <=> (entry.name = "tz" \/ Lower(entry.string) = "timezone")

\* res.users was exported with no field selection, timezone_handling true and
\* exclude_timezone false, from a schema that holds tz and a field that is a
\* timezone field by its label alone: both are flagged and name is not.
C21_Witness ==
    /\ last.op = "export_selected_models"
    /\ last.ret # EmptyDict
    /\ ~last.args.exclude_timezone
    /\ last.args.timezone_handling
    /\ \E i \in DOMAIN last.ret.models :
          /\ last.ret.models[i].model = ResUsers
          /\ \E j, k, l \in DOMAIN last.ret.models[i].fields :
                /\ last.ret.models[i].fields[j].name = "tz"
                /\ MarkedTimezone(last.ret.models[i].fields[j])
                /\ last.ret.models[i].fields[k].name = "lang"
                /\ last.ret.models[i].fields[k].string = "TIMEZONE"
                /\ MarkedTimezone(last.ret.models[i].fields[k])
                /\ last.ret.models[i].fields[l].name = "name"
                /\ ~MarkedTimezone(last.ret.models[i].fields[l])

\* C22: deselect_model and clear_selected_models change selected_models only, and
\* select_model leaves selected_fields alone as well, so the field subset chosen
\* for a model is still there when the model is deselected and selected again;
\* deselect_model of a model that is not selected changes nothing, and neither of
\* the two raises.
C22_DeselectKeepsFields ==
    /\ [](last.op \in {"deselect_model", "clear_selected_models"}
            => /\ ~last.raised
               /\ St = [last.pre EXCEPT !.selected_models = selected_models]
               /\ last.reqs = <<>>)
    /\ [](last.op = "deselect_model"
            => /\ selected_models = last.pre.selected_models \ {last.args.model}
               /\ last.args.model \notin last.pre.selected_models => St = last.pre)
    /\ [](last.op = "clear_selected_models" => selected_models = {})
    /\ [][last'.op \in {"select_model", "deselect_model", "clear_selected_models"}
            => selected_fields' = selected_fields]_vars

\* res.users, which has a field subset chosen, was selected and has just been
\* deselected: the subset is kept.
C22_Witness ==
    /\ last.op = "deselect_model"
    /\ last.args.model = ResUsers
    /\ ResUsers \in last.pre.selected_models
    /\ ResUsers \notin selected_models
    /\ selected_fields[ResUsers] = Some({"name", "partner_id"})

\* The export options of the menu.
ExportChoices == DOMAIN MenuExporter

\* C23: in the menu loop of explore(), an export option (9, 11, 13, 14 or 15)
\* chosen while no model is selected shows a message (a printed line or the generator's warning)
\* and raises no exception, in interactive and in non-interactive mode, with and
\* without a file name given.
C23_MenuExportOfNothing ==
    (last.op \in ExportChoices /\ last.pre.selected_models = {})
        => /\ ~last.raised
           /\ last.ret.printed # <<>> \/ last.ret.warned

----------------------------------------------------------------------------
\* OdooAPIClient (src/tests/odoo_api_tests/src/client.py).

\* stop_after_attempt(2) and retry_if_exception_type((ConnectionError, Timeout)).
StopAfterAttempt == 2
RetryOn == {"ConnectionError", "Timeout"}

\* The exceptions 'except requests.RequestException' catches.  The error of
\* response.json() on a body that is not JSON is one of them in the builds of
\* requests that raise requests.JSONDecodeError, and a plain ValueError in the
\* builds before them.
RequestException == {"ConnectionError", "Timeout", "HTTPError", "JSONDecodeError"}
JsonErrors == {"JSONDecodeError", "ValueError"}

\* What the server does with one request: a JSON body, a body that is not JSON,
\* an error status, no connection, no answer in time.
ServerAnswers == {"json", "text", "HTTPError", "ConnectionError", "Timeout"}

\* session.request(...), raise_for_status() and response.json(): the exception
\* they raise on the answer, or None.
RequestRaises(answer, json_error) ==
    CASE answer \in {"HTTPError", "ConnectionError", "Timeout"} -> Some(answer)
      [] answer = "text" -> Some(json_error)
      [] OTHER -> None

\* What one execution of a decorated body gives: the token it leaves, the value
\* it returns or the exception it raises, and the answers it has used.
Outcome(token, ret, raises, used) ==
    [token |-> token, ret |-> ret, raises |-> raises, used |-> used]

\* The Authorization header of call_endpoint.
Authorization(token) ==
    IF token # None /\ token # Some("basic_auth") THEN "Bearer" ELSE "Basic"

\* The body of call_endpoint, executed once.
CallEndpoint(token, call, answers, json_error) ==
    LET raises == RequestRaises(answers[1], json_error)
        used == <<answers[1]>>
    IN  IF raises = None
        THEN Outcome(token, [status |-> "success", data |-> "json"], None, used)
        ELSE IF raises[1] \in RequestException
        THEN Outcome(token, [status |-> "error", data |-> raises[1]], None, used)
        ELSE Outcome(token, None, raises, used)

\* The Basic Auth fallback of authenticate, on the answer to its GET.
BasicAuth(token, answer, used) ==
    IF answer \in {"json", "text"}
    THEN Outcome(Some("basic_auth"), TRUE, None, Append(used, answer))
    ELSE Outcome(token, FALSE, None, Append(used, answer))

\* The body of authenticate, executed once.
Authenticate(token, call, answers, json_error) ==
    IF call.args.oauth2
    THEN LET raises == RequestRaises(answers[1], json_error)
         IN  IF raises = None
             THEN Outcome(Some("token"), TRUE, None, <<answers[1]>>)
             ELSE IF raises[1] \in RequestException
             THEN BasicAuth(token, answers[2], <<answers[1]>>)
             ELSE Outcome(token, None, raises, <<answers[1]>>)
    ELSE BasicAuth(token, answers[1], <<>>)

\* tenacity's @retry(..., reraise=True) around a body: the body runs; an
\* exception of RetryOn before the last attempt runs it again; anything else
\* ends the call with what the body gave.  attempts lists the answers each
\* execution used.
RECURSIVE Retry(_, _, _, _, _, _)
Retry(Body(_, _, _, _), token, call, answers, json_error, attempts) ==
    LET Decide(outcome) ==
            IF /\ outcome.raises # None
               /\ outcome.raises[1] \in RetryOn
               /\ Len(attempts) + 1 < StopAfterAttempt
            THEN Retry(Body, outcome.token, call, Tail(answers), json_error,
                       Append(attempts, outcome.used))
            ELSE [outcome EXCEPT !.used = Append(attempts, outcome.used)]
    IN  Decide(Body(token, call, Head(answers), json_error))

\* A call of a client method: the server answers each request some way.
DoClient(Body(_, _, _, _), call) ==
    \E answers \in [1..StopAfterAttempt -> [1..2 -> ServerAnswers]],
       json_error \in JsonErrors :
        LET Returned(r) ==
                /\ access_token' = r.token
                /\ last' = [op |-> call.op, args |-> call.args, ret |-> r.ret,
                            raised |-> r.raises # None, attempts |-> r.used,
                            token |-> access_token]
                /\ UNCHANGED <<models_cache, models_info_cache, fields_cache,
                               record_cache, models_file, models_info_file,
                               fields_files, sample_files, server_ids,
                               server_country, workload, selected_models,
                               selected_fields, picker, out_file>>
        IN  Returned(Retry(Body, access_token, call, answers, json_error, <<>>))

Endpoints == {"/api/v2/database", "/api/v2/search/res.partner"}
HttpMethods == {"GET", "POST", "PUT"}

DoAuthenticate ==
    /\ workload = "client"
    /\ \E oauth2 \in BOOLEAN : DoClient(Authenticate, Call("authenticate", [oauth2 |-> oauth2]))

DoCallEndpoint ==
    /\ workload = "client"
    /\ \E endpoint \in Endpoints, method \in HttpMethods :
          DoClient(CallEndpoint,
                   Call("call_endpoint", [endpoint |-> endpoint, method |-> method]))

\* The API client on its own: constructed, not authenticated.
InitClient ==
    /\ models_cache = None
    /\ models_info_cache = None
    /\ record_cache = [m \in Models |-> None]
    /\ models_file = None
    /\ models_info_file = None
    /\ sample_files = [k \in FsKeys |-> None]
    /\ fields_cache = [m \in Models |-> None]
    /\ fields_files = [k \in FsKeys |-> None]
    /\ workload = "client"
    /\ selected_models = {}
    /\ selected_fields = [m \in Models |-> None]
    /\ picker = None
    /\ out_file = None
    /\ server_ids = <<>>
    /\ server_country = FalseV
    /\ access_token = None
    /\ InitLast

NextClient ==
    \/ DoAuthenticate
    \/ DoCallEndpoint

SpecClient == InitClient /\ [][NextClient]_vars

\* C24 (second attempt): a call_endpoint whose first attempt met a connection
\* error or a timeout has made a second attempt when it reports its outcome.
C24_SecondAttemptAfterFailure ==
    (last.op = "call_endpoint" /\ last.attempts[1][1] \in RetryOn)
        => Len(last.attempts) = 2

\* The lines of a diagram that draw a relationship.
RelationshipLines(lines) == SelectSeq(lines, LAMBDA l : "field" \in DOMAIN l)

\* C25: export_model_diagram of the generator, called with a model name, ends
\* for every depth and every field list (fields that relate the model to itself
\* included): the queue runs empty after at most one popleft() for the model and
\* one per field; no model is taken for processing twice; at depth <= 0 the
\* result is the empty string; at depth >= 1 the result starts with the
\* renderer's start line, ends with its end line, and has exactly one
\* relationship line, in the order of the fields, for each field that has a
\* type, a field name and a relation.
C25_DiagramEnds ==
    (last.op = "export_model_diagram" /\ last.args.model # None)
        => /\ ~last.raised
           /\ IF last.args.depth <= 0 THEN last.ret = EmptyText
              ELSE LET run == last.calls[1]
                       lines == last.ret.text
                       drawn == SelectSeq(last.args.fields,
                                          LAMBDA f : /\ f.type # ""
                                                     /\ f.field_name # ""
                                                     /\ f.relation # None)
                   IN  /\ run.ended
                       /\ run.pops <= 1 + Len(last.args.fields)
                       /\ NoRepeat(run.processed_models)
                       /\ lines[1] = StartDiagram(last.args.renderer)
                       /\ lines[Len(lines)] = EndDiagram(last.args.renderer)
                       /\ RelationshipLines(lines)
                            = [i \in DOMAIN drawn |->
                                  Render(last.args.renderer, drawn[i].type,
                                         last.args.model, drawn[i].relation,
                                         drawn[i].field_name)]

\* A diagram of depth 2 for fields that relate the model to itself and to another
\* model: the other model was taken from the queue, the model itself only once.
C25_Witness ==
    /\ last.op = "export_model_diagram"
    /\ last.args.depth = 2
    /\ \E i \in DOMAIN last.args.fields : last.args.fields[i].relation = last.args.model
    /\ last.calls[1].ended
    /\ last.calls[1].pops = 2
    /\ last.calls[1].processed_models = <<ResPartner, ResUsers>>
    /\ Len(RelationshipLines(last.ret.text)) = 3

----------------------------------------------------------------------------
\* The keyed kinds asked for two models whose names share a file-system key, on a
\* fresh installation.
InitKeys ==
    /\ InitCaches
    /\ fields_cache = [m \in Models |-> None]
    /\ fields_files = [k \in FsKeys |-> None]
    /\ workload = "keys"
    /\ server_ids = IdList(1)
    /\ server_country = M2oV(12, "Belgium")
    /\ access_token = None
    /\ InitLast

NextKeys ==
    \/ DoGetFields
    \/ DoGetSampleRecord
    \/ DoRefreshCache
    \/ Restart

SpecKeys == InitKeys /\ [][NextKeys]_vars

\* The schemas and the sample records the server gives for a model.
SchemasOf(model_name) == {ServerFields(model_name, v) : v \in 1..MaxVer}
SampleOf(model_name) == ServerRecord(model_name, last.env)

\* C26: across get_fields and get_sample_record calls and restarts, what a call
\* for a model returns (when it returns a value) is a schema, or a sample record,
\* of that model, never one that was fetched for another model name.
C26_NoEntryOfAnotherModel ==
    /\ (last.op = "get_fields" /\ last.ret # EmptyDict)
        => last.ret \in SchemasOf(last.args.model)
    /\ (last.op = "get_sample_record" /\ last.ret # EmptyDict)
        => last.ret = SampleOf(last.args.model)

\* The keys of a record that hold an expansion.
ExpandedKeys(record) ==
    {k \in DOMAIN record : k \in {"country_id_expanded", "child_ids_expanded"}}

\* C27: whatever get_sample_record calls came before on the model, a call with
\* expand_relations=False returns a record without any <field>_expanded key, and
\* a call with expand_relations=True and max_depth >= 1 returns a record that has
\* the <field>_expanded key of every relation field for which it made a related
\* read that the server answered.
C27_ExpansionFollowsTheCall ==
    (last.op = "get_sample_record" /\ last.ret # EmptyDict)
        => IF ~last.args.expand_relations THEN ExpandedKeys(last.ret) = {}
           ELSE last.args.max_depth >= 1
                   => \A i \in DOMAIN last.reqs :
                         (last.reqs[i].kind = "related" /\ last.reqs[i].status = "ok")
                            => (last.reqs[i].field \o "_expanded") \in DOMAIN last.ret

\* C28: when the picker is left with q, selected_fields[model] is what it was
\* when the picker was opened together with the required fields added on
\* opening, whatever keys (toggle, select all, select none) were pressed before.
C28_CancelDiscardsEdits ==
    (last.op = "getch" /\ last.args.key = "q")
        => SelectedFieldsOf(St, last.pre.picker.model) = last.pre.picker.opened

\* C29: search_models(query) raises nothing and returns a list of model names,
\* in every cache state: names never loaded, names cleared by refresh_cache(),
\* and the fetch of the names failing.
C29_SearchNeverRaises ==
    last.op = "search_models"
        => /\ ~last.raised
           /\ \A i \in DOMAIN last.ret : InList(last.ret[i], ServerModelNames)

\* C30: within one process, after any get_fields and refresh_cache calls, a model
\* whose schema is in fields_cache and whose file-system key has a cache file has
\* the same schema in both.
C30_LayersAgree ==
    \A m \in Models :
        (fields_cache[m] # None /\ fields_files[FsKey(m)] # None)
            => fields_cache[m] = fields_files[FsKey(m)]
====
